---- MODULE Spec2Model ----
(***************************************************************************)
(* pibox-server: the session handler, the shared AppState behind its       *)
(* tokio RwLock, the transfer admission counter and the broadcast hub.     *)
(*                                                                         *)
(* One handler task per WebSocket connection (handle_websocket), one       *)
(* forwarder task per registered session.  A step of the model is one      *)
(* stretch of handler code between two await points that can suspend.      *)
(***************************************************************************)
EXTENDS Integers, Sequences, FiniteSets, TLC

\* ------------------------------------------------------------- bounds
\* Number of WebSocket connections accepted during a run.
NConns == 2
\* Frames each connection's dispatch loop reads before the peer goes quiet.
MaxRequests == 1
\* Largest configured max_concurrent_transfers that is explored.
MaxTransfers == 2
\* Retained slots of the event_tx broadcast channel (state.rs:49 asks for
\* 100); scaled down so that a lagging receiver is reachable.
HubCapacity == 1
\* The fan-out scenario keeps both queue sizes of the program, the hub's 100
\* and the 32 of the channel made for each client, in their order.
FanoutCapacity == 2
ClientCapacity == 1

\* Seconds the clock runs, and the lifetimes of access and refresh tokens
\* (900 s and 604800 s by default), scaled down.
MaxTime == 6
\* Refreshes chained from one issued pair.
MaxChain == 3
AccessTtl == 2
RefreshTtl == 4
\* Ticks of the load probe while a forwarder is subscribed.
MaxTicks == 2

\* The client's view-model: entries in a listing, rows on the screen (20 by
\* default) and the undo history kept (MAX_UNDO_HISTORY, 50), scaled down.
MaxEntries == 2
VisibleRows == 1
MAX_UNDO_HISTORY == 2

Conns == 1..NConns
\* The load probe's task, as a holder of the RwLock.
Monitor == NConns + 1
NoTask == 0

\* ------------------------------------------------------------- frames
\* A frame read from the peer: kind, and two string fields (login:
\* username and password; refresh_token: the token presented).
Frame(k, x, y) == [kind |-> k, x |-> x, y |-> y]
NoFrame == Frame("none", "", "")

\* The tokens a peer presents, by name.  TokenClaims is what the server
\* finds in each: whether the signature verifies under its key, exp minus
\* the server's clock at the check (seconds), and token_type.
TokenNames == {"refresh", "access", "refresh_at_expiry", "refresh_expired",
               "refresh_stale", "refresh_forged", "access_expired"}
Token(sig, e, ty) == [signed |-> sig, exp |-> e, token_type |-> ty]
TokenClaims(t) ==
    CASE t = "refresh"           -> Token(TRUE, 1, "refresh")
      [] t = "access"            -> Token(TRUE, 1, "access")
      [] t = "refresh_at_expiry" -> Token(TRUE, 0, "refresh")
      [] t = "refresh_expired"   -> Token(TRUE, -1, "refresh")
      [] t = "refresh_stale"     -> Token(TRUE, -61, "refresh")
      [] t = "refresh_forged"    -> Token(FALSE, 1, "refresh")
      [] t = "access_expired"    -> Token(TRUE, -1, "access")

\* ClientMessage variants that parse from a text frame.
LoginFrames == {Frame("login", u, p) : u \in {"", "u"}, p \in {"", "p"}}
RefreshFrames == {Frame("refresh_token", t, "") : t \in TokenNames}
TransferKinds == {"download", "upload"}
MutateKinds == {"delete", "rename", "mkdir"}
BackendKinds == {"list_dir"} \cup TransferKinds \cup MutateKinds
PlainKinds == {"ping", "offload_result"} \cup BackendKinds
\* The ClientCapabilities a peer reports, by name (CapsOf gives the fields).
CapNames == {"workstation", "on_battery", "low_ram", "gpu_laptop", "dual_core",
             "no_thumbnails", "no_search"}
CapFrames == {Frame("capabilities", n, "") : n \in CapNames}
ClientMessage ==
    LoginFrames \cup RefreshFrames \cup CapFrames \cup {Frame(k, "", "") : k \in PlainKinds}
\* Items of the incoming stream that are not a ClientMessage: a transport
\* ping, a close frame, anything the loop ignores (binary, pong, text that
\* does not parse), and Some(Err(_)), after which the stream has ended.
OtherFrames == {Frame(k, "", "") : k \in {"ping_frame", "close", "ignored", "error"}}
\* What a peer sends in the general specifications; one capabilities report
\* stands for all of them there.
Frames ==
    (ClientMessage \ CapFrames) \cup {Frame("capabilities", "workstation", "")}
        \cup OtherFrames

\* ------------------------------------------------------------ messages
\* A ServerMessage written to a peer: type, op (or event) and detail.
Msg(t, o, d) == [type |-> t, op |-> o, detail |-> d]
NoMsg == Msg("none", "", "")
AuthRequired == Msg("auth_error", "", "Authentication required")
TooMany == "Too many concurrent transfers"

OpName(k) == IF k = "list_dir" THEN "list" ELSE k

FsEventFor(k) ==
    CASE k = "upload" -> Msg("fs_event", "created", "is_dir=false")
      [] k = "mkdir"  -> Msg("fs_event", "created", "is_dir=true")
      [] k = "delete" -> Msg("fs_event", "deleted", "")
      [] k = "rename" -> Msg("fs_event", "renamed", "")

VARIABLES
    pc,                       \* handler position of each connection
    cur,                      \* frame the handler read last
    res,                      \* result of the handler's last backend call
    adm,                      \* result of can_start_transfer inside start_transfer
    reply,                    \* response returned by handle_client_message
    out,                      \* messages written to each peer, in order
    peer,                     \* "open" or "gone" (transport closed or failed)
    nrecv,                    \* frames read by the dispatch loop
    clients,                  \* AppState.clients
    active_transfers,         \* AppState.active_transfers
    max_concurrent_transfers, \* AppState.max_concurrent_transfers
    event_capacity,           \* capacity of AppState.event_tx, the broadcast hub
    load,                     \* AppState.load
    readers,                  \* tasks holding the RwLock shared
    writer,                   \* task holding the RwLock exclusively
    lockq,                    \* tasks waiting for the RwLock, first come first
    hub,                      \* values sent on event_tx while it had receivers
    rxpos,                    \* next hub position of each session's receiver
    fwd,                      \* forwarder task: "none", "run" (in rx.recv), "lock" and
                              \* "write" (see sender), "exited", "aborted"
    sender,                   \* holder of the mutex on each session's outbound writer
    monitor,                  \* the load probe's task: its position and the snapshot
                              \* it has taken
    now,                      \* the server's clock, seconds
    held,                     \* the token pair last issued to the caller
    verdict,                  \* what the last call on the token authority returned
    candidate,                \* what the last find_offload_candidate returned
    app,                      \* the client's view-model (pibox-core AppState)
    ret,                      \* what the last call on the view-model returned
    http                      \* the last POST /api/login and the response to it

vars == <<pc, cur, res, adm, reply, out, peer, nrecv, clients, active_transfers,
          max_concurrent_transfers, event_capacity, load, readers, writer, lockq,
          hub, rxpos, fwd, sender, monitor,
          now, held, verdict, candidate, app, ret, http>>

hvars == <<cur, res, adm, reply, nrecv>>
svars == <<clients, active_transfers, max_concurrent_transfers, event_capacity, load>>
lvars == <<readers, writer, lockq>>
bvars == <<hub, rxpos, fwd>>
tvars == <<now, held, verdict, monitor>>
cvars == <<candidate, app, ret, http, sender>>

\* --------------------------------------------------------- AppState
NoClients == [c \in {} |-> 0]

\* AppState::register_client
register_client(cl, id, username) ==
    [d \in DOMAIN cl \cup {id} |->
        IF d = id THEN [username |-> username, capabilities |-> {}] ELSE cl[d]]

\* (mutant) cleanup leaves the registry as it is
unregister_client_none(cl, id) == cl

\* AppState::unregister_client
unregister_client(cl, id) == [d \in DOMAIN cl \ {id} |-> cl[d]]

\* AppState::update_client_capabilities
update_client_capabilities(cl, id, caps) ==
    IF id \in DOMAIN cl
    THEN [cl EXCEPT ![id] = [@ EXCEPT !.capabilities = {caps}]]
    ELSE cl

\* ClientCapabilities (can_compress, which no policy reads, is left out).
ClientCapabilities(cores, gpu, ram, ac, thumbs, search) ==
    [cpu_cores |-> cores, has_gpu |-> gpu, ram_free_mb |-> ram, on_ac_power |-> ac,
     can_generate_thumbnails |-> thumbs, can_search_locally |-> search]

\* What each named report says.
CapsOf(n) ==
    CASE n = "workstation"   -> ClientCapabilities(4, FALSE, 500, TRUE, TRUE, TRUE)
      [] n = "on_battery"    -> ClientCapabilities(4, TRUE, 500, FALSE, TRUE, TRUE)
      [] n = "low_ram"       -> ClientCapabilities(4, TRUE, 499, TRUE, TRUE, TRUE)
      [] n = "gpu_laptop"    -> ClientCapabilities(3, TRUE, 8000, TRUE, TRUE, TRUE)
      [] n = "dual_core"     -> ClientCapabilities(3, FALSE, 8000, TRUE, TRUE, TRUE)
      [] n = "no_thumbnails" -> ClientCapabilities(8, TRUE, 8000, TRUE, FALSE, TRUE)
      [] n = "no_search"     -> ClientCapabilities(8, TRUE, 8000, TRUE, TRUE, FALSE)

\* find_offload_candidate found nobody (None).
NoCandidate == 0

\* (mutant) a client on battery is good enough
can_offload_on_battery(caps, task) ==
    IF caps.ram_free_mb < 500
    THEN FALSE
    ELSE CASE task = "thumbnail" ->
                  caps.can_generate_thumbnails /\ (caps.has_gpu \/ caps.cpu_cores >= 4)
           [] task = "search" -> caps.can_search_locally /\ caps.cpu_cores >= 4

\* find_offload_candidate: the test made on a client that reported capabilities.
can_offload(caps, task) ==
    IF ~caps.on_ac_power \/ caps.ram_free_mb < 500
    THEN FALSE
    ELSE CASE task = "thumbnail" ->
                  caps.can_generate_thumbnails /\ (caps.has_gpu \/ caps.cpu_cores >= 4)
           [] task = "search" -> caps.can_search_locally /\ caps.cpu_cores >= 4

\* AppState::find_offload_candidate: the first client, in the map's iteration
\* order, that passes the test.  The order of a HashMap's values is not fixed,
\* so the result is any client that passes: the set of possible results.
find_offload_candidate(cl, task) ==
    LET found == {id \in DOMAIN cl :
                     \E n \in cl[id].capabilities : can_offload(CapsOf(n), task)} IN
    IF found = {} THEN {NoCandidate} ELSE found

\* The result of a find_offload_candidate call; calls is the number of calls
\* made so far, modulo 2.
Candidate(task, id, calls) == [task |-> task, client |-> id, calls |-> calls]

\* (mutant) the admission check off by one
can_start_transfer_le(n, max) == n <= max

\* AppState::can_start_transfer
can_start_transfer(n, max) == n < max

\* (mutant) the transfer is counted in before the check is looked at
start_transfer_always(n, ok) == n + 1

\* AppState::start_transfer, the counter it leaves when the check gave ok
start_transfer(n, ok) == IF ok THEN n + 1 ELSE n

\* (mutant) the slot is never given back
end_transfer_none(n) == n

\* AppState::end_transfer
end_transfer(n) == IF n > 0 THEN n - 1 ELSE n

\* Validation::default() of the jsonwebtoken crate: seconds of leeway on exp.
Leeway == 60

\* JwtAuth::decode_token at time t on a token whose signature check gives
\* `signed` and whose expiry is exp: the library checks the signature, then
\* exp with its leeway; the code then tests exp < now.  "ok" or the error.
decode_checks(signed, exp, t) ==
    CASE ~signed -> "Token encoding failed: InvalidSignature"
      [] signed /\ exp < t - Leeway -> "Token encoding failed: ExpiredSignature"
      [] signed /\ exp >= t - Leeway /\ exp < t -> "Token has expired"
      [] OTHER -> "ok"

\* JwtAuth::decode_token on a presented token, whose exp is relative to the
\* time of the check.
decode_token(tok) == decode_checks(TokenClaims(tok).signed, TokenClaims(tok).exp, 0)

WrongKind == "Invalid token type: expected Refresh, got Access"
WrongKindAccess == "Invalid token type: expected Access, got Refresh"

\* Issued tokens: the claims and the key the signature was made with.
Secret == "secret"
Claims(sub, exp, iat, ty, dev) ==
    [sub |-> sub, exp |-> exp, iat |-> iat, token_type |-> ty, device_id |-> dev]
NoClaims == Claims("", 0, 0, "", "none")
encode(claims, key) == [claims |-> claims, key |-> key]
NoToken == encode(NoClaims, "")
NoPair == [access_token |-> NoToken, refresh_token |-> NoToken, expires_in |-> 0]

\* Result<_, AuthError> of a call: the claims or the pair on Ok.
Result(ok, err, claims, pair) == [ok |-> ok, err |-> err, claims |-> claims, pair |-> pair]

\* (mutant) the access token is issued without the device id
generate_tokens_no_device(username, device_id, t) ==
    [access_token |-> encode(Claims(username, t + AccessTtl, t, "access", "none"), Secret),
     refresh_token |-> encode(Claims(username, t + RefreshTtl, t, "refresh", device_id), Secret),
     expires_in |-> AccessTtl]

\* JwtAuth::generate_tokens at time t
generate_tokens(username, device_id, t) ==
    [access_token |-> encode(Claims(username, t + AccessTtl, t, "access", device_id), Secret),
     refresh_token |-> encode(Claims(username, t + RefreshTtl, t, "refresh", device_id), Secret),
     expires_in |-> AccessTtl]

\* JwtAuth::verify_access_token at time t
verify_access_token(token, t) ==
    LET d == decode_checks(token.key = Secret, token.claims.exp, t) IN
    IF d # "ok" THEN Result(FALSE, d, NoClaims, NoPair)
    ELSE IF token.claims.token_type # "access"
         THEN Result(FALSE, WrongKindAccess, NoClaims, NoPair)
         ELSE Result(TRUE, "", token.claims, NoPair)

\* A call on the token authority: what was called, on which of the held
\* tokens, when, and what came back; with it the username and device id
\* the held pair was first issued for and the refreshes made since then.
Verdict(op, which, t, result, sub, dev, n) ==
    [op |-> op, which |-> which, at |-> t, result |-> result,
     sub |-> sub, dev |-> dev, n |-> n]

\* (mutant) refresh without the test of the token's kind
refresh_pair_any_kind(token, t) ==
    LET d == decode_checks(token.key = Secret, token.claims.exp, t) IN
    IF d # "ok" THEN Result(FALSE, d, NoClaims, NoPair)
    ELSE Result(TRUE, "", NoClaims,
                generate_tokens(token.claims.sub, token.claims.device_id, t))

\* (mutant) refresh issues the new pair without the device id
refresh_pair_drop_device(token, t) ==
    LET d == decode_checks(token.key = Secret, token.claims.exp, t) IN
    IF d # "ok" THEN Result(FALSE, d, NoClaims, NoPair)
    ELSE IF token.claims.token_type # "refresh"
         THEN Result(FALSE, WrongKind, NoClaims, NoPair)
         ELSE Result(TRUE, "", NoClaims, generate_tokens(token.claims.sub, "none", t))

\* JwtAuth::refresh_tokens at time t, on an issued token
refresh_pair(token, t) ==
    LET d == decode_checks(token.key = Secret, token.claims.exp, t) IN
    IF d # "ok" THEN Result(FALSE, d, NoClaims, NoPair)
    ELSE IF token.claims.token_type # "refresh"
         THEN Result(FALSE, WrongKind, NoClaims, NoPair)
         ELSE Result(TRUE, "", NoClaims,
                     generate_tokens(token.claims.sub, token.claims.device_id, t))

\* What a caller can present from the pair it holds: either token, or
\* either token with its signature made under another key.
Which == {"access", "refresh", "forged_access", "forged_refresh"}
Presented(w) ==
    CASE w = "access" -> held.access_token
      [] w = "refresh" -> held.refresh_token
      [] w = "forged_access" -> encode(held.access_token.claims, "other")
      [] w = "forged_refresh" -> encode(held.refresh_token.claims, "other")

\* JwtAuth::refresh_tokens and the RefreshToken arm's mapping of its result:
\* decode, then the kind test, then a new pair.
refresh_tokens(tok) ==
    IF decode_token(tok) # "ok"
    THEN Msg("auth_error", "", decode_token(tok))
    ELSE IF TokenClaims(tok).token_type # "refresh"
         THEN Msg("auth_error", "", WrongKind)
         ELSE Msg("auth_success", "", "token_pair")

\* ------------------------------------------------------------ load probe
CPU_HIGH_THRESHOLD == 80
CPU_CRITICAL_THRESHOLD == 95
RAM_LOW_MB == 100
RAM_CRITICAL_MB == 50

\* The readings the probe takes: cpu in percent, free RAM in MB, on both
\* sides of every threshold.
CpuSamples == {50, 79, 80, 81, 94, 95, 96}
RamSamples == {40, 50, 51, 100, 101, 500}

ServerLoad(cpu, ram, io, hs) ==
    [cpu_percent |-> cpu, ram_free_mb |-> ram, io_busy |-> io, hints |-> hs]

\* LoadHint, in the order of its definition.
LoadHint == <<"throttle_transfers", "generate_thumbnails_locally",
              "search_locally", "recovering">>

\* (mutant) the critical CPU tier adds only the hints of its own
generate_hints_tier_only(cpu_percent, ram_free_mb) ==
    (IF cpu_percent >= CPU_CRITICAL_THRESHOLD
       THEN <<"search_locally", "recovering">>
       ELSE IF cpu_percent >= CPU_HIGH_THRESHOLD
            THEN <<"throttle_transfers", "generate_thumbnails_locally">>
            ELSE <<>>)
    \o (IF ram_free_mb <= RAM_CRITICAL_MB
          THEN <<"throttle_transfers", "recovering">>
          ELSE IF ram_free_mb <= RAM_LOW_MB THEN <<"search_locally">> ELSE <<>>)

\* generate_hints: the CPU tier's pushes, then the RAM tier's.
generate_hints(cpu_percent, ram_free_mb) ==
    (IF cpu_percent >= CPU_CRITICAL_THRESHOLD
       THEN <<"throttle_transfers", "generate_thumbnails_locally",
              "search_locally", "recovering">>
       ELSE IF cpu_percent >= CPU_HIGH_THRESHOLD
            THEN <<"throttle_transfers", "generate_thumbnails_locally">>
            ELSE <<>>)
    \o (IF ram_free_mb <= RAM_CRITICAL_MB
          THEN <<"throttle_transfers", "recovering">>
          ELSE IF ram_free_mb <= RAM_LOW_MB THEN <<"search_locally">> ELSE <<>>)

\* ServerMessage::Load
LoadMsg(l) == [type |-> "load", op |-> "", detail |-> l]

\* ------------------------------------------------------------ RwLock
\* tokio's RwLock hands the lock out in arrival order: a task that finds
\* waiters ahead of it, or the lock held against it, joins the queue.
InQueue(t) == \E i \in 1..Len(lockq) : lockq[i] = t
QueueTurn(t) == IF InQueue(t) THEN Head(lockq) = t ELSE lockq = <<>>
Dequeued(t) == IF InQueue(t) THEN Tail(lockq) ELSE lockq

\* (mutant) a write lock that excludes nobody
CanWriteShared(t) == QueueTurn(t)

\* state.read().await completes
CanRead(t) == writer = NoTask /\ QueueTurn(t)
\* state.write().await completes
CanWrite(t) == writer = NoTask /\ readers = {} /\ QueueTurn(t)

WantsRead(c) == pc[c] \in {"sub", "refresh", "io_wait", "bcast"}
WantsWrite(c) == pc[c] \in {"reg", "start", "end", "caps", "unreg"}

\* ------------------------------------------------------- broadcast hub
\* A receiver exists while its forwarder task runs.
Receivers == {c \in Conns : fwd[c] \in {"run", "lock", "write"}}

\* (mutant) a bounded queue per receiver: the send is refused while any
\* receiver's queue is full
broadcast_bounded(h, m) ==
    IF Receivers = {} \/ (\E c \in Receivers : Len(h) - rxpos[c] + 1 >= event_capacity)
    THEN h ELSE Append(h, m)

\* AppState::broadcast: event_tx.send, whose error (no receiver) is dropped
broadcast(h, m) == IF Receivers = {} THEN h ELSE Append(h, m)

\* rx.recv() finds its next value overwritten: Err(Lagged)
Lagged(c) == Len(hub) - rxpos[c] + 1 > event_capacity

\* ---------------------------------------------------- POST /api/login
\* The task serving an HTTP login, as a holder of the RwLock.
HttpTask == NConns + 2

\* A LoginRequest and what login_handler answered: the status and, with 200,
\* the LoginResponse (the fields of the token pair).
Http(username, password, status, tokens) ==
    [username |-> username, password |-> password, status |-> status, tokens |-> tokens]

\* ------------------------------------------- client view-model (AppState)

\* UndoAction: Navigate { from } keeps path, CursorMove { from } keeps cursor,
\* Selection { previous } keeps previous.
UndoAction(kind, path, cursor, previous) ==
    [kind |-> kind, path |-> path, cursor |-> cursor, previous |-> previous]
Navigate(from) == UndoAction("Navigate", from, 0, <<>>)
CursorMove(from) == UndoAction("CursorMove", "", from, <<>>)
Selection(previous) == UndoAction("Selection", "", 0, previous)

\* UndoEntry
UndoEntry(action, description) == [action |-> action, description |-> description]

\* AppState::default.  entries is the number of entries of the listing;
\* selection_anchor is empty (None) or holds one index.
AppDefault ==
    [current_path |-> "/", entries |-> 0, cursor |-> 0, scroll_offset |-> 0,
     visible_rows |-> VisibleRows, selection_mode |-> "Single", selected |-> <<>>,
     selection_anchor |-> {}, undo_stack |-> <<>>, redo_stack |-> <<>>]

\* (mutant) at the cap the entry just pushed is the one dropped
push_undo_drop_newest(a, action, description) ==
    LET pushed == Append(a.undo_stack, UndoEntry(action, description)) IN
    [a EXCEPT !.redo_stack = <<>>,
              !.undo_stack = IF Len(pushed) > MAX_UNDO_HISTORY
                             THEN SubSeq(pushed, 1, MAX_UNDO_HISTORY) ELSE pushed]

\* AppState::push_undo
push_undo(a, action, description) ==
    LET pushed == Append(a.undo_stack, UndoEntry(action, description)) IN
    [a EXCEPT !.redo_stack = <<>>,
              !.undo_stack = IF Len(pushed) > MAX_UNDO_HISTORY THEN Tail(pushed) ELSE pushed]

\* AppState::ensure_cursor_visible
ensure_cursor_visible(a) ==
    IF a.cursor < a.scroll_offset
    THEN [a EXCEPT !.scroll_offset = a.cursor]
    ELSE IF a.cursor >= a.scroll_offset + a.visible_rows
         THEN [a EXCEPT !.scroll_offset = a.cursor - a.visible_rows + 1]
         ELSE a

\* start..=end, collected
RangeInclusive(start, end) == [i \in 1..(end - start + 1) |-> start + i - 1]

\* AppState::update_range_selection
update_range_selection(a) ==
    IF a.selection_anchor = {}
    THEN a
    ELSE LET anchor == CHOOSE x \in a.selection_anchor : TRUE
             start == IF anchor < a.cursor THEN anchor ELSE a.cursor
             end == IF anchor > a.cursor THEN anchor ELSE a.cursor
         IN  [a EXCEPT !.selected = RangeInclusive(start, end)]

\* The tail shared by cursor_down and cursor_up.
AfterMove(a) == IF a.selection_mode = "Range" THEN update_range_selection(a) ELSE a

\* AppState::set_entries
set_entries(a, path, entries) ==
    [push_undo(a, Navigate(a.current_path), "navigate") EXCEPT
        !.current_path = path, !.entries = entries, !.cursor = 0, !.scroll_offset = 0,
        !.selected = <<>>, !.selection_anchor = {}]

\* AppState::cursor_down
cursor_down(a) ==
    IF a.entries = 0
    THEN a
    ELSE LET pushed == push_undo(a, CursorMove(a.cursor), "cursor") IN
         AfterMove(IF pushed.cursor < pushed.entries - 1
                   THEN ensure_cursor_visible([pushed EXCEPT !.cursor = @ + 1])
                   ELSE pushed)

\* AppState::cursor_up
cursor_up(a) ==
    IF a.entries = 0
    THEN a
    ELSE LET pushed == push_undo(a, CursorMove(a.cursor), "cursor") IN
         AfterMove(IF pushed.cursor > 0
                   THEN ensure_cursor_visible([pushed EXCEPT !.cursor = @ - 1])
                   ELSE pushed)

\* AppState::cursor_top
cursor_top(a) ==
    [push_undo(a, CursorMove(a.cursor), "cursor") EXCEPT !.cursor = 0, !.scroll_offset = 0]

\* AppState::cursor_bottom
cursor_bottom(a) ==
    IF a.entries = 0
    THEN a
    ELSE ensure_cursor_visible(
             [push_undo(a, CursorMove(a.cursor), "cursor") EXCEPT !.cursor = a.entries - 1])

\* AppState::toggle_selection
toggle_selection(a) ==
    LET pushed == push_undo(a, Selection(a.selected), "selection") IN
    IF \E i \in 1..Len(pushed.selected) : pushed.selected[i] = pushed.cursor
    THEN [pushed EXCEPT !.selected = SelectSeq(@, LAMBDA i : i # pushed.cursor)]
    ELSE [pushed EXCEPT !.selected = Append(@, pushed.cursor)]

\* AppState::select_all
select_all(a) ==
    [push_undo(a, Selection(a.selected), "selection") EXCEPT
        !.selected = RangeInclusive(0, a.entries - 1)]

\* AppState::clear_selection
clear_selection(a) ==
    IF a.selected # <<>>
    THEN [push_undo(a, Selection(a.selected), "selection") EXCEPT !.selected = <<>>]
    ELSE a

\* AppState::start_range_selection
start_range_selection(a) ==
    [a EXCEPT !.selection_mode = "Range", !.selection_anchor = {a.cursor},
              !.selected = <<a.cursor>>]

\* AppState::exit_input_mode (input_mode itself is not kept)
exit_input_mode(a) == [a EXCEPT !.selection_mode = "Single", !.selection_anchor = {}]

\* undo and redo: what an entry's action does to the state, and the action
\* that takes it back.
Revert(a, action) ==
    CASE action.kind = "Navigate" ->
             [app |-> [a EXCEPT !.current_path = action.path],
              back |-> Navigate(a.current_path)]
      [] action.kind = "CursorMove" ->
             [app |-> ensure_cursor_visible([a EXCEPT !.cursor = action.cursor]),
              back |-> CursorMove(a.cursor)]
      [] action.kind = "Selection" ->
             [app |-> [a EXCEPT !.selected = action.previous],
              back |-> Selection(a.selected)]

\* What undo and redo give: the state they leave and the value they return.
Returned(a, value) == [app |-> a, value |-> value]

\* (mutant) undo puts the cursor back and forgets where it was
undo_forgetful(a) ==
    IF a.undo_stack # <<>>
    THEN LET entry == a.undo_stack[Len(a.undo_stack)]
             popped == [a EXCEPT !.undo_stack = SubSeq(@, 1, Len(@) - 1)]
             r == Revert(popped, entry.action)
         IN  Returned([r.app EXCEPT !.redo_stack =
                          Append(@, UndoEntry(entry.action, entry.description))], "true")
    ELSE Returned(a, "false")

\* AppState::undo
undo(a) ==
    IF a.undo_stack # <<>>
    THEN LET entry == a.undo_stack[Len(a.undo_stack)]
             popped == [a EXCEPT !.undo_stack = SubSeq(@, 1, Len(@) - 1)]
             r == Revert(popped, entry.action)
         IN  Returned([r.app EXCEPT !.redo_stack =
                          Append(@, UndoEntry(r.back, entry.description))], "true")
    ELSE Returned(a, "false")

\* AppState::redo
redo(a) ==
    IF a.redo_stack # <<>>
    THEN LET entry == a.redo_stack[Len(a.redo_stack)]
             popped == [a EXCEPT !.redo_stack = SubSeq(@, 1, Len(@) - 1)]
             r == Revert(popped, entry.action)
         IN  Returned([r.app EXCEPT !.undo_stack =
                          Append(@, UndoEntry(r.back, entry.description))], "true")
    ELSE Returned(a, "false")

\* The last call on the view-model: its name, what it returned ("unit" when
\* it returns nothing), the cursor before it, and where it stands in a run
\* of a cursor move that changed the cursor (stage 1), an undo straight
\* after it (2) and a redo straight after that (3); calls is the number of
\* calls made so far, modulo 2.
Ret(op, value, from, stage, calls) ==
    [op |-> op, value |-> value, from |-> from, stage |-> stage, calls |-> calls]

\* Messages sent on the hub that wait for c's forwarder: those its receiver
\* has not yet taken, as far as the hub still holds them.
Pending(c) ==
    IF c \notin Receivers THEN 0
    ELSE IF Len(hub) - rxpos[c] + 1 > event_capacity
         THEN event_capacity
         ELSE Len(hub) - rxpos[c] + 1

\* ---------------------------------------------------------------- Init
\* The state after AppState::new with a hub of the given capacity, before
\* any connection.
Boot(capacity) ==
    /\ event_capacity = capacity
    /\ pc = [c \in Conns |-> "idle"]
    /\ cur = [c \in Conns |-> NoFrame]
    /\ res = [c \in Conns |-> "none"]
    /\ adm = [c \in Conns |-> FALSE]
    /\ reply = [c \in Conns |-> NoMsg]
    /\ out = [c \in Conns |-> <<>>]
    /\ peer = [c \in Conns |-> "open"]
    /\ nrecv = [c \in Conns |-> 0]
    /\ clients = NoClients
    /\ active_transfers = 0
    /\ max_concurrent_transfers \in 1..MaxTransfers
    /\ load = ServerLoad(0, 0, FALSE, <<>>)
    /\ readers = {}
    /\ writer = NoTask
    /\ lockq = <<>>
    /\ hub = <<>>
    /\ rxpos = [c \in Conns |-> 0]
    /\ fwd = [c \in Conns |-> "none"]
    /\ sender = [c \in Conns |-> "free"]
    /\ monitor = [pc |-> "idle", load |-> ServerLoad(0, 0, FALSE, <<>>)]
    /\ candidate = Candidate("none", NoCandidate, 0)
    /\ app = AppDefault
    /\ ret = Ret("none", "unit", 0, 0, 0)
    /\ http = Http("", "", 0, NoPair)
    /\ now = 0
    /\ held = NoPair
    /\ verdict = Verdict("none", "", 0, Result(FALSE, "", NoClaims, NoPair), "", "none", 0)

Init == Boot(HubCapacity)

\* ------------------------------------------------------------- actions
\* ws_handler: the upgrade hands the socket to handle_websocket.
Connect(c) ==
    /\ pc[c] = "idle"
    /\ pc' = [pc EXCEPT ![c] = "await_auth"]
    /\ UNCHANGED <<hvars, out, peer, svars, tvars, cvars, lvars, bvars>>

\* The peer closes, or the transport fails.
PeerGone(c) ==
    /\ pc[c] \notin {"idle", "rejected", "closed"}
    /\ peer[c] = "open"
    /\ peer' = [peer EXCEPT ![c] = "gone"]
    /\ UNCHANGED <<pc, hvars, out, svars, tvars, cvars, lvars, bvars>>

\* (mutant) any frame that parses as a ClientMessage authenticates
ValidLoginAnyMessage(f) == f \in ClientMessage

\* wait_for_auth's test of one frame.
ValidLogin(f) == f.kind = "login" /\ f.x # "" /\ f.y # ""

\* wait_for_auth: one item read by the loop.  Some(Err(_)) ends the loop
\* like the end of the stream; the auth_error write that follows fails.
AuthRecv(c, f) ==
    /\ pc[c] = "await_auth"
    /\ peer[c] = "open"
    /\ cur' = [cur EXCEPT ![c] = f]
    /\ pc' = [pc EXCEPT ![c] = IF ValidLogin(f) THEN "reg"
                               ELSE IF f.kind = "error" THEN "rejected"
                               ELSE "await_auth"]
    /\ peer' = [peer EXCEPT ![c] = IF f.kind \in {"close", "error"} THEN "gone" ELSE "open"]
    /\ UNCHANGED <<res, adm, reply, nrecv, out, svars, tvars, cvars, lvars, bvars>>

\* (mutant) the handler returns without writing auth_error
RejectAuthSilent(c) ==
    /\ pc' = [pc EXCEPT ![c] = "rejected"]
    /\ UNCHANGED <<hvars, out, peer, svars, tvars, cvars, lvars, bvars>>

\* handle_websocket, wait_for_auth gave None: auth_error is written (the
\* write fails unseen when the peer is gone) and the handler returns.
RejectAuth(c) ==
    /\ out' = [out EXCEPT ![c] = IF peer[c] = "open" THEN Append(@, AuthRequired) ELSE @]
    /\ pc' = [pc EXCEPT ![c] = "rejected"]
    /\ UNCHANGED <<hvars, peer, svars, tvars, cvars, lvars, bvars>>

\* wait_for_auth: the 30 s timeout elapses.
AuthTimeout(c) ==
    /\ pc[c] = "await_auth"
    /\ RejectAuth(c)

\* wait_for_auth: the stream ends.
AuthEof(c) ==
    /\ pc[c] = "await_auth"
    /\ peer[c] = "gone"
    /\ RejectAuth(c)

\* A task whose read() or write() cannot complete joins the queue.
Enqueue(c) ==
    /\ ~InQueue(c)
    /\ \/ WantsRead(c) /\ ~CanRead(c)
       \/ WantsWrite(c) /\ ~CanWrite(c)
    /\ lockq' = Append(lockq, c)
    /\ UNCHANGED <<pc, hvars, out, peer, svars, tvars, cvars, readers, writer, bvars>>

\* handle_websocket: register_client under the write lock.
Register(c) ==
    /\ pc[c] = "reg"
    /\ CanWrite(c)
    /\ clients' = register_client(clients, c, cur[c].x)
    /\ lockq' = Dequeued(c)
    /\ pc' = [pc EXCEPT ![c] = "sub"]
    /\ UNCHANGED <<hvars, out, peer, active_transfers, max_concurrent_transfers, event_capacity,
                   load, tvars, cvars, readers, writer, bvars>>

\* handle_websocket: event_tx.subscribe() under the read lock, then the
\* forwarder task is spawned.
Subscribe(c) ==
    /\ pc[c] = "sub"
    /\ CanRead(c)
    /\ rxpos' = [rxpos EXCEPT ![c] = Len(hub) + 1]
    /\ fwd' = [fwd EXCEPT ![c] = "run"]
    /\ lockq' = Dequeued(c)
    /\ pc' = [pc EXCEPT ![c] = "loop"]
    /\ UNCHANGED <<hvars, out, peer, svars, tvars, cvars, readers, writer, hub>>

\* The types of response handle_client_message returns for each kind of
\* message; none for capabilities, offload_result and login.
ReplyKinds(k) ==
    CASE k = "ping" -> {"pong"}
      [] k = "refresh_token" -> {"auth_success", "auth_error"}
      [] k = "list_dir" -> {"dir_listing", "op_error"}
      [] k = "download" -> {"file_content", "op_error"}
      [] k \in {"upload"} \cup MutateKinds -> {"op_success", "op_error"}
      [] OTHER -> {}

\* (mutant) capabilities is answered like a request with a response
DispatchCapsReply(f) ==
    CASE f.kind \in {"ping", "capabilities"} -> "send"
      [] f.kind = "refresh_token" -> "refresh"
      [] f.kind \in TransferKinds -> "start"
      [] f.kind \in {"list_dir"} \cup MutateKinds -> "io_wait"
      [] OTHER -> "loop"

\* Where handle_client_message goes first for a parsed message.
Dispatch(f) ==
    CASE f.kind = "ping" -> "send"
      [] f.kind = "refresh_token" -> "refresh"
      [] f.kind \in TransferKinds -> "start"
      [] f.kind \in {"list_dir"} \cup MutateKinds -> "io_wait"
      [] f.kind = "capabilities" -> "caps"
      [] OTHER -> "loop"

\* (mutant) the main loop leaves and lets the forwarder task run on
LeaveKeepForwarder(c) ==
    /\ UNCHANGED fwd
    /\ pc' = [pc EXCEPT ![c] = "unreg"]

\* The main loop leaves: the forwarder is aborted, unregister comes next.
Leave(c) ==
    /\ fwd' = [fwd EXCEPT ![c] = "aborted"]
    /\ pc' = [pc EXCEPT ![c] = "unreg"]

\* handle_websocket: the main loop reads one item; the peer sends at most n.
\* Some(Err(_)) falls to the `_ => {}` arm: the loop goes on, and reads None
\* next because the stream has ended.
RecvN(c, f, n) ==
    /\ pc[c] = "loop"
    /\ peer[c] = "open"
    /\ nrecv[c] < n
    /\ cur' = [cur EXCEPT ![c] = f]
    /\ nrecv' = [nrecv EXCEPT ![c] = @ + 1]
    /\ peer' = [peer EXCEPT ![c] = IF f.kind = "error" THEN "gone" ELSE @]
    /\ UNCHANGED <<res, adm, svars, tvars, cvars, lvars, hub, rxpos>>
    /\ \/ /\ f \in ClientMessage
          /\ pc' = [pc EXCEPT ![c] = Dispatch(f)]
          /\ reply' = [reply EXCEPT ![c] =
                         IF f.kind = "ping" THEN Msg("pong", "", "") ELSE NoMsg]
          /\ UNCHANGED <<out, fwd>>
       \/ /\ f.kind = "ping_frame"
          /\ out' = [out EXCEPT ![c] = Append(@, Msg("pong_frame", "", ""))]
          /\ UNCHANGED <<pc, reply, fwd>>
       \/ /\ f.kind \in {"ignored", "error"}
          /\ UNCHANGED <<pc, reply, out, fwd>>
       \/ /\ f.kind = "close"
          /\ Leave(c)
          /\ UNCHANGED <<reply, out>>

Recv(c, f) == RecvN(c, f, MaxRequests)

\* handle_websocket: receiver.next() gives None.
RecvEof(c) ==
    /\ pc[c] = "loop"
    /\ peer[c] = "gone"
    /\ Leave(c)
    /\ UNCHANGED <<hvars, out, peer, svars, tvars, cvars, lvars, hub, rxpos>>

\* Download, Upload: the write lock is taken and start_transfer makes its check.
StartCheck(c) ==
    /\ pc[c] = "start"
    /\ CanWrite(c)
    /\ writer' = c
    /\ lockq' = Dequeued(c)
    /\ adm' = [adm EXCEPT ![c] = can_start_transfer(active_transfers, max_concurrent_transfers)]
    /\ pc' = [pc EXCEPT ![c] = "start_inc"]
    /\ UNCHANGED <<cur, res, reply, nrecv, out, peer, svars, tvars, cvars, readers, bvars>>

\* Download, Upload: start_transfer counts the transfer in or the handler
\* returns the rejection; the write lock is released.
StartCommit(c) ==
    /\ pc[c] = "start_inc"
    /\ active_transfers' = start_transfer(active_transfers, adm[c])
    /\ writer' = NoTask
    /\ IF adm[c]
       THEN /\ pc' = [pc EXCEPT ![c] = "io_wait"]
            /\ UNCHANGED reply
       ELSE /\ pc' = [pc EXCEPT ![c] = "send"]
            /\ reply' = [reply EXCEPT ![c] = Msg("op_error", OpName(cur[c].kind), TooMany)]
    /\ UNCHANGED <<cur, res, adm, nrecv, out, peer, clients, max_concurrent_transfers, event_capacity,
                   load, tvars, cvars, readers, lockq, bvars>>

\* The read lock is taken and the backend call starts under it.
BackendCall(c) ==
    /\ pc[c] = "io_wait"
    /\ CanRead(c)
    /\ readers' = readers \cup {c}
    /\ lockq' = Dequeued(c)
    /\ pc' = [pc EXCEPT ![c] = "io"]
    /\ UNCHANGED <<hvars, out, peer, svars, tvars, cvars, writer, bvars>>

\* The response of a handler whose backend call gave r (no broadcast due).
Response(k, r) ==
    IF r = "err" THEN Msg("op_error", OpName(k), "backend error")
    ELSE CASE k = "list_dir" -> Msg("dir_listing", "", "")
           [] k = "download" -> Msg("file_content", "", "")
           [] OTHER -> Msg("op_success", OpName(k), "")

\* (mutant) a failed transfer returns its error before end_transfer
AfterBackendEarlyReturn(k, r) ==
    CASE r = "err" -> "send"
      [] k \in TransferKinds -> "end"
      [] k \in MutateKinds -> "bcast"
      [] OTHER -> "send"

\* (mutant) delete, rename and mkdir broadcast whatever the backend said
AfterBackendBroadcastAlways(k, r) ==
    CASE k \in TransferKinds -> "end"
      [] k \in MutateKinds -> "bcast"
      [] OTHER -> "send"

\* Where a handler goes when its backend call has returned r.
AfterBackend(k, r) ==
    CASE k \in TransferKinds -> "end"
      [] k \in MutateKinds /\ r = "ok" -> "bcast"
      [] OTHER -> "send"

\* The backend call returns and the read guard is dropped.
BackendReturn(c, r) ==
    /\ pc[c] = "io"
    /\ readers' = readers \ {c}
    /\ res' = [res EXCEPT ![c] = r]
    /\ pc' = [pc EXCEPT ![c] = AfterBackend(cur[c].kind, r)]
    /\ reply' = [reply EXCEPT ![c] =
                   IF AfterBackend(cur[c].kind, r) = "send"
                   THEN Response(cur[c].kind, r) ELSE @]
    /\ UNCHANGED <<cur, adm, nrecv, out, peer, svars, tvars, cvars, writer, lockq, bvars>>

\* Download, Upload: end_transfer under the write lock.
EndTransfer(c) ==
    /\ pc[c] = "end"
    /\ CanWrite(c)
    /\ active_transfers' = end_transfer(active_transfers)
    /\ lockq' = Dequeued(c)
    /\ IF cur[c].kind = "upload" /\ res[c] = "ok"
       THEN /\ pc' = [pc EXCEPT ![c] = "bcast"]
            /\ UNCHANGED reply
       ELSE /\ pc' = [pc EXCEPT ![c] = "send"]
            /\ reply' = [reply EXCEPT ![c] = Response(cur[c].kind, res[c])]
    /\ UNCHANGED <<cur, res, adm, nrecv, out, peer, clients, max_concurrent_transfers, event_capacity,
                   load, tvars, cvars, readers, writer, bvars>>

\* Upload, Delete, Rename, Mkdir succeeded: the fs_event is broadcast under
\* the read lock and op_success is returned.
Broadcast(c) ==
    /\ pc[c] = "bcast"
    /\ CanRead(c)
    /\ hub' = broadcast(hub, FsEventFor(cur[c].kind))
    /\ lockq' = Dequeued(c)
    /\ reply' = [reply EXCEPT ![c] = Response(cur[c].kind, "ok")]
    /\ pc' = [pc EXCEPT ![c] = "send"]
    /\ UNCHANGED <<cur, res, adm, nrecv, out, peer, svars, tvars, cvars, readers, writer, rxpos, fwd>>

\* RefreshToken: refresh_tokens under the read lock.
Refresh(c) ==
    /\ pc[c] = "refresh"
    /\ CanRead(c)
    /\ lockq' = Dequeued(c)
    /\ reply' = [reply EXCEPT ![c] = refresh_tokens(cur[c].x)]
    /\ pc' = [pc EXCEPT ![c] = "send"]
    /\ UNCHANGED <<cur, res, adm, nrecv, out, peer, svars, tvars, cvars, readers, writer, bvars>>

\* Capabilities: update_client_capabilities under the write lock, no response.
Capabilities(c) ==
    /\ pc[c] = "caps"
    /\ CanWrite(c)
    /\ clients' = update_client_capabilities(clients, c, cur[c].x)
    /\ lockq' = Dequeued(c)
    /\ pc' = [pc EXCEPT ![c] = "loop"]
    /\ UNCHANGED <<hvars, out, peer, active_transfers, max_concurrent_transfers, event_capacity,
                   load, tvars, cvars, readers, writer, bvars>>

\* (mutant) the response is queued ahead of what was written before
SendPrepend(c) ==
    /\ pc[c] = "send"
    /\ IF peer[c] = "open"
       THEN /\ out' = [out EXCEPT ![c] = <<reply[c]>> \o @]
            /\ pc' = [pc EXCEPT ![c] = "loop"]
            /\ UNCHANGED fwd
       ELSE /\ Leave(c)
            /\ UNCHANGED out
    /\ UNCHANGED <<hvars, peer, svars, tvars, cvars, lvars, hub, rxpos>>

\* (mutant) an error response ends the session
SendCloseOnError(c) ==
    /\ pc[c] = "send"
    /\ IF peer[c] = "open"
       THEN /\ out' = [out EXCEPT ![c] = Append(@, reply[c])]
            /\ IF reply[c].type \in {"op_error", "auth_error"}
               THEN Leave(c)
               ELSE pc' = [pc EXCEPT ![c] = "loop"] /\ UNCHANGED fwd
       ELSE /\ Leave(c)
            /\ UNCHANGED out
    /\ UNCHANGED <<hvars, peer, svars, tvars, cvars, lvars, hub, rxpos>>

\* handle_websocket: the response is written; a failed write leaves the loop.
Send(c) ==
    /\ pc[c] = "send"
    /\ IF peer[c] = "open"
       THEN /\ out' = [out EXCEPT ![c] = Append(@, reply[c])]
            /\ pc' = [pc EXCEPT ![c] = "loop"]
            /\ UNCHANGED fwd
       ELSE /\ Leave(c)
            /\ UNCHANGED out
    /\ UNCHANGED <<hvars, peer, svars, tvars, cvars, lvars, hub, rxpos>>

\* handle_websocket: cleanup, unregister_client under the write lock.
Unregister(c) ==
    /\ pc[c] = "unreg"
    /\ CanWrite(c)
    /\ clients' = unregister_client(clients, c)
    /\ lockq' = Dequeued(c)
    /\ pc' = [pc EXCEPT ![c] = "closed"]
    /\ UNCHANGED <<hvars, out, peer, active_transfers, max_concurrent_transfers, event_capacity,
                   load, tvars, cvars, readers, writer, bvars>>

\* (mutant) the forwarder writes the newest value of the hub, not its next
ForwardNewest(c) ==
    /\ fwd[c] = "run"
    /\ rxpos[c] <= Len(hub)
    /\ IF Lagged(c) \/ peer[c] = "gone"
       THEN /\ fwd' = [fwd EXCEPT ![c] = "exited"]
            /\ UNCHANGED <<out, rxpos>>
       ELSE /\ out' = [out EXCEPT ![c] = Append(@, hub[Len(hub)])]
            /\ rxpos' = [rxpos EXCEPT ![c] = @ + 1]
            /\ UNCHANGED fwd
    /\ UNCHANGED <<pc, hvars, peer, svars, tvars, cvars, lvars, hub>>

\* The forwarder task: one rx.recv() and the write of what it gave.
Forward(c) ==
    /\ fwd[c] = "run"
    /\ rxpos[c] <= Len(hub)
    /\ IF Lagged(c) \/ peer[c] = "gone"
       THEN /\ fwd' = [fwd EXCEPT ![c] = "exited"]
            /\ UNCHANGED <<out, rxpos>>
       ELSE /\ out' = [out EXCEPT ![c] = Append(@, hub[rxpos[c]])]
            /\ rxpos' = [rxpos EXCEPT ![c] = @ + 1]
            /\ UNCHANGED fwd
    /\ UNCHANGED <<pc, hvars, peer, svars, tvars, cvars, lvars, hub>>

\* (mutant) io_busy is set from the high threshold on
MonitorTickBusyAtThreshold(cpu_percent, ram_free_mb) ==
    LET l == ServerLoad(cpu_percent, ram_free_mb, cpu_percent >= CPU_HIGH_THRESHOLD,
                        generate_hints(cpu_percent, ram_free_mb)) IN
    /\ CanWrite(Monitor)
    /\ Len(hub) < MaxTicks
    /\ load' = l
    /\ hub' = broadcast(hub, LoadMsg(l))
    /\ UNCHANGED <<pc, hvars, out, peer, clients, active_transfers,
                   max_concurrent_transfers, event_capacity, tvars, cvars, lvars, rxpos, fwd>>

\* monitor_loop: one tick.  The readings are taken, the hints generated, and
\* under the write lock the snapshot is stored and broadcast.
MonitorTick(cpu_percent, ram_free_mb) ==
    LET l == ServerLoad(cpu_percent, ram_free_mb, cpu_percent > CPU_HIGH_THRESHOLD,
                        generate_hints(cpu_percent, ram_free_mb)) IN
    /\ CanWrite(Monitor)
    /\ Len(hub) < MaxTicks
    /\ load' = l
    /\ hub' = broadcast(hub, LoadMsg(l))
    /\ UNCHANGED <<pc, hvars, out, peer, clients, active_transfers,
                   max_concurrent_transfers, event_capacity, tvars, cvars, lvars, rxpos, fwd>>

\* Everything but the clock, the held pair and the last verdict.
othervars == <<pc, hvars, out, peer, svars, lvars, bvars, cvars, monitor>>

\* A second passes on the server's clock.
ClockTick ==
    /\ now < MaxTime
    /\ now' = now + 1
    /\ UNCHANGED <<held, verdict, othervars>>

\* generate_tokens(username, device_id) is called.
Issue(username, device_id) ==
    LET pair == generate_tokens(username, device_id, now) IN
    /\ held' = pair
    /\ verdict' = Verdict("issue", "", now, Result(TRUE, "", NoClaims, pair),
                          username, device_id, 0)
    /\ UNCHANGED <<now, othervars>>

\* verify_access_token is called on a token of the held pair.
VerifyAccess(w) ==
    /\ held # NoPair
    /\ verdict' = Verdict("verify", w, now, verify_access_token(Presented(w), now),
                          verdict.sub, verdict.dev, verdict.n)
    /\ UNCHANGED <<now, held, othervars>>

\* refresh_tokens is called on a token of the held pair; the caller keeps
\* the pair it gets.
RefreshCall(w) ==
    LET r == refresh_pair(Presented(w), now) IN
    /\ held # NoPair
    /\ verdict.n < MaxChain
    /\ verdict' = Verdict("refresh", w, now, r, verdict.sub, verdict.dev,
                          IF r.ok THEN verdict.n + 1 ELSE verdict.n)
    /\ held' = IF r.ok THEN r.pair ELSE held
    /\ UNCHANGED <<now, othervars>>

NextTokens ==
    \/ ClockTick
    \/ \E u \in {"u", "v"} : \E d \in {"none", "d"} : Issue(u, d)
    \/ \E w \in Which : VerifyAccess(w)
    \/ \E w \in Which : RefreshCall(w)

SpecTokens == Init /\ [][NextTokens]_vars

\* find_offload_candidate(task) is called on the state, by a caller that
\* holds the lock, and returns id.
FindCandidate(task, id) ==
    /\ writer = NoTask
    /\ id \in find_offload_candidate(clients, task)
    /\ candidate' = Candidate(task, id, (candidate.calls + 1) % 2)
    /\ UNCHANGED <<pc, hvars, out, peer, svars, lvars, bvars, tvars, app, ret, http, sender>>

\* Offload policy: clients log in, report capabilities (up to MaxRequests + 1
\* reports each) and leave, while candidates are looked for.
NextOffload ==
    \/ \E c \in Conns :
           \/ Connect(c)
           \/ PeerGone(c)
           \/ AuthRecv(c, Frame("login", "u", "p"))
           \/ Register(c)
           \/ Subscribe(c)
           \/ \E f \in CapFrames : RecvN(c, f, MaxRequests + 1)
           \/ RecvEof(c)
           \/ Capabilities(c)
           \/ Unregister(c)
    \/ \E task \in {"thumbnail", "search"} : \E id \in Conns \cup {NoCandidate} :
           FindCandidate(task, id)

SpecOffload == Init /\ [][NextOffload]_vars

\* (mutant) only the username has to be there
HttpLoginAnyPassword(username, password) ==
    /\ IF username = ""
       THEN /\ http' = Http(username, password, 401, NoPair)
            /\ UNCHANGED <<held, verdict>>
       ELSE /\ CanRead(HttpTask)
            /\ LET tokens == generate_tokens(username, "none", now) IN
                 /\ http' = Http(username, password, 200, tokens)
                 /\ held' = tokens
                 /\ verdict' = Verdict("login", "", now, Result(TRUE, "", NoClaims, tokens),
                                       username, "none", 0)
    /\ UNCHANGED <<now, monitor, pc, hvars, out, peer, svars, lvars, bvars, candidate, app, ret, sender>>

\* login_handler: 401 when the username or the password is empty; otherwise
\* the tokens are generated under the read lock and returned with 200.  The
\* caller keeps the pair.
HttpLogin(username, password) ==
    /\ IF username = "" \/ password = ""
       THEN /\ http' = Http(username, password, 401, NoPair)
            /\ UNCHANGED <<held, verdict>>
       ELSE /\ CanRead(HttpTask)
            /\ LET tokens == generate_tokens(username, "none", now) IN
                 /\ http' = Http(username, password, 200, tokens)
                 /\ held' = tokens
                 /\ verdict' = Verdict("login", "", now, Result(TRUE, "", NoClaims, tokens),
                                       username, "none", 0)
    /\ UNCHANGED <<now, monitor, pc, hvars, out, peer, svars, lvars, bvars, candidate, app, ret, sender>>

\* HTTP logins beside the sessions: every client logs in over its socket and
\* sends uploads, while logins are posted over HTTP, the access token they
\* return is verified, and the clock runs.
NextHttp ==
    \/ \E c \in Conns :
           \/ Connect(c)
           \/ AuthRecv(c, Frame("login", "u", "p"))
           \/ Enqueue(c)
           \/ Register(c)
           \/ Subscribe(c)
           \/ Recv(c, Frame("upload", "", ""))
           \/ StartCheck(c)
           \/ StartCommit(c)
           \/ BackendCall(c)
           \/ \E r \in {"ok", "err"} : BackendReturn(c, r)
           \/ EndTransfer(c)
           \/ Broadcast(c)
           \/ Send(c)
           \/ Forward(c)
    \/ \E username \in {"", "u"} : \E password \in {"", "p"} : HttpLogin(username, password)
    \/ VerifyAccess("access")
    \/ ClockTick

SpecHttp == Init /\ [][NextHttp]_vars

\* A call on the view-model: op left the state a and returned value.
Call(op, a, value) ==
    /\ app' = a
    /\ ret' = Ret(op, value, app.cursor,
                  CASE /\ op \in {"cursor_down", "cursor_up", "cursor_top", "cursor_bottom"}
                       /\ a.cursor # app.cursor -> 1
                    [] op = "undo" /\ ret.stage = 1 -> 2
                    [] op = "redo" /\ ret.stage = 2 -> 3
                    [] OTHER -> 0,
                  (ret.calls + 1) % 2)
    /\ UNCHANGED <<pc, hvars, out, peer, svars, lvars, bvars, tvars, candidate, http, sender>>

\* The calls on the view-model, one disjunct each: set_entries, the cursor
\* moves, the selection operations, undo and redo.
NextView ==
    \/ \E path \in {"/", "/a"} : \E entries \in 0..MaxEntries :
           Call("set_entries", set_entries(app, path, entries), "unit")
    \/ Call("cursor_down", cursor_down(app), "unit")
    \/ Call("cursor_up", cursor_up(app), "unit")
    \/ Call("cursor_top", cursor_top(app), "unit")
    \/ Call("cursor_bottom", cursor_bottom(app), "unit")
    \/ Call("toggle_selection", toggle_selection(app), "unit")
    \/ Call("select_all", select_all(app), "unit")
    \/ Call("clear_selection", clear_selection(app), "unit")
    \/ Call("start_range_selection", start_range_selection(app), "unit")
    \/ Call("exit_input_mode", exit_input_mode(app), "unit")
    \/ Call("undo", undo(app).app, undo(app).value)
    \/ Call("redo", redo(app).app, redo(app).value)

SpecView == Init /\ [][NextView]_vars

\* The view-model under the calls that move the cursor, toggle the
\* selection, replace the listing and walk the history, and no others.
NextNavigation ==
    \/ \E path \in {"/", "/a"} : \E entries \in 0..MaxEntries :
           Call("set_entries", set_entries(app, path, entries), "unit")
    \/ Call("cursor_down", cursor_down(app), "unit")
    \/ Call("cursor_up", cursor_up(app), "unit")
    \/ Call("cursor_top", cursor_top(app), "unit")
    \/ Call("cursor_bottom", cursor_bottom(app), "unit")
    \/ Call("toggle_selection", toggle_selection(app), "unit")
    \/ Call("undo", undo(app).app, undo(app).value)
    \/ Call("redo", redo(app).app, redo(app).value)

SpecNavigation == Init /\ [][NextNavigation]_vars

Next ==
    \E c \in Conns :
        \/ Connect(c)
        \/ PeerGone(c)
        \/ \E f \in Frames : AuthRecv(c, f)
        \/ AuthTimeout(c)
        \/ AuthEof(c)
        \/ Enqueue(c)
        \/ Register(c)
        \/ Subscribe(c)
        \/ \E f \in Frames : Recv(c, f)
        \/ RecvEof(c)
        \/ StartCheck(c)
        \/ StartCommit(c)
        \/ BackendCall(c)
        \/ \E r \in {"ok", "err"} : BackendReturn(c, r)
        \/ EndTransfer(c)
        \/ Broadcast(c)
        \/ Refresh(c)
        \/ Capabilities(c)
        \/ Send(c)
        \/ Unregister(c)
        \/ Forward(c)

Spec == Init /\ [][Next]_vars

\* Scenario S4: max_concurrent_transfers = 1, every client logs in and sends
\* downloads only (one more than MaxRequests each), the backend serves them.
InitS4 == Init /\ max_concurrent_transfers = 1

NextS4 ==
    \E c \in Conns :
        \/ Connect(c)
        \/ AuthRecv(c, Frame("login", "u", "p"))
        \/ Enqueue(c)
        \/ Register(c)
        \/ Subscribe(c)
        \/ RecvN(c, Frame("download", "", ""), MaxRequests + 1)
        \/ StartCheck(c)
        \/ StartCommit(c)
        \/ BackendCall(c)
        \/ BackendReturn(c, "ok")
        \/ EndTransfer(c)
        \/ Send(c)

SpecS4 == InitS4 /\ [][NextS4]_vars

\* Request sequences: max_concurrent_transfers = 1, every client logs in and
\* sends messages (ping, a refresh_token carrying an access token, download,
\* mkdir) or a close frame, the first client up to MaxRequests + 1 of them
\* and the others up to MaxRequests; backend calls succeed or fail and a
\* peer may go at any moment.
SeqRequests(c) == IF c = 1 THEN MaxRequests + 1 ELSE MaxRequests

SeqFrames ==
    {Frame(k, "", "") : k \in {"ping", "download", "mkdir", "close"}}
        \cup {Frame("refresh_token", "access", "")}

NextSeq ==
    \E c \in Conns :
        \/ Connect(c)
        \/ PeerGone(c)
        \/ AuthRecv(c, Frame("login", "u", "p"))
        \/ Enqueue(c)
        \/ Register(c)
        \/ Subscribe(c)
        \/ \E f \in SeqFrames : RecvN(c, f, SeqRequests(c))
        \/ RecvEof(c)
        \/ StartCheck(c)
        \/ StartCommit(c)
        \/ BackendCall(c)
        \/ \E r \in {"ok", "err"} : BackendReturn(c, r)
        \/ EndTransfer(c)
        \/ Broadcast(c)
        \/ Refresh(c)
        \/ Send(c)
        \/ Unregister(c)
        \/ Forward(c)

SpecSeq == InitS4 /\ [][NextSeq]_vars

\* The load probe with subscribers: clients log in and subscribe, and their
\* forwarders run, while the probe ticks.
NextLoad ==
    \/ \E cpu \in CpuSamples : \E ram \in RamSamples : MonitorTick(cpu, ram)
    \/ \E c \in Conns :
          \/ Connect(c)
          \/ AuthRecv(c, Frame("login", "u", "p"))
          \/ Register(c)
          \/ Subscribe(c)
          \/ Forward(c)

SpecLoad == Init /\ [][NextLoad]_vars

\* The timer behind wait_for_auth's timeout fires once its 30 s are over.
FairSpec == Spec /\ \A c \in Conns : WF_vars(AuthTimeout(c))

\* The steps a handler task takes by itself once it is scheduled: every
\* step but the reads of its peer's frames.
HandlerStep(c) ==
    \/ Enqueue(c)
    \/ Register(c)
    \/ Subscribe(c)
    \/ RecvEof(c)
    \/ StartCheck(c)
    \/ StartCommit(c)
    \/ BackendCall(c)
    \/ \E r \in {"ok", "err"} : BackendReturn(c, r)
    \/ EndTransfer(c)
    \/ Broadcast(c)
    \/ Refresh(c)
    \/ Capabilities(c)
    \/ Send(c)
    \/ Unregister(c)

\* Teardown scenario: every client logs in; it then sends uploads, a close
\* frame, or its stream fails or ends, at any moment of the other sessions'
\* work.
TeardownFrames == {Frame(k, "", "") : k \in {"upload", "close", "error"}}

NextTeardown ==
    \E c \in Conns :
        \/ Connect(c)
        \/ PeerGone(c)
        \/ AuthRecv(c, Frame("login", "u", "p"))
        \/ Enqueue(c)
        \/ Register(c)
        \/ Subscribe(c)
        \/ \E f \in TeardownFrames : Recv(c, f)
        \/ RecvEof(c)
        \/ StartCheck(c)
        \/ StartCommit(c)
        \/ BackendCall(c)
        \/ \E r \in {"ok", "err"} : BackendReturn(c, r)
        \/ EndTransfer(c)
        \/ Broadcast(c)
        \/ Send(c)
        \/ Unregister(c)
        \/ Forward(c)

\* The runtime schedules every handler task that can run, and every backend
\* call returns.
TeardownSpec == Init /\ [][NextTeardown]_vars /\ \A c \in Conns : WF_vars(HandlerStep(c))

\* Fan-out scenario: the sessions of the teardown scenario, with a hub of
\* FanoutCapacity.
SpecFanout == Boot(FanoutCapacity) /\ [][NextTeardown]_vars

\* Ordering scenario: a hub of FanoutCapacity; every client logs in and sends
\* mkdir and delete requests (the first client up to MaxRequests + 1 of them
\* and the others up to MaxRequests), which the backend serves, while the
\* load probe ticks and the forwarders run.
NextOrder ==
    \/ MonitorTick(80, 500)
    \/ \E c \in Conns :
          \/ Connect(c)
          \/ AuthRecv(c, Frame("login", "u", "p"))
          \/ Enqueue(c)
          \/ Register(c)
          \/ Subscribe(c)
          \/ \E k \in {"mkdir", "delete"} : RecvN(c, Frame(k, "", ""), SeqRequests(c))
          \/ BackendCall(c)
          \/ BackendReturn(c, "ok")
          \/ Broadcast(c)
          \/ Send(c)
          \/ Forward(c)

InitOrder == Boot(FanoutCapacity) /\ max_concurrent_transfers = 1

SpecOrder == InitOrder /\ [][NextOrder]_vars

\* ------------------------------------------- the outbound-writer mutex
\* Send, Forward and the pong of RecvN each take the mutex on the session's
\* writer, write and release it in one step.  The actions below take the
\* same code one await at a time: sender_clone.lock().await, then the write.

\* The main loop reads a transport ping: a pong is to be written.
ReadPingFrame(c) ==
    /\ pc[c] = "loop"
    /\ peer[c] = "open"
    /\ nrecv[c] < SeqRequests(c)
    /\ cur' = [cur EXCEPT ![c] = Frame("ping_frame", "", "")]
    /\ nrecv' = [nrecv EXCEPT ![c] = @ + 1]
    /\ reply' = [reply EXCEPT ![c] = Msg("pong_frame", "", "")]
    /\ pc' = [pc EXCEPT ![c] = "send"]
    /\ UNCHANGED <<res, adm, out, peer, svars, tvars, cvars, lvars, bvars>>

\* The main loop reads None or a close frame and breaks; abort() drops the
\* forwarder task and with it the guard of the mutex it may hold.
LoopEnd(c) ==
    /\ pc[c] = "loop"
    /\ \/ /\ peer[c] = "gone"
          /\ UNCHANGED <<cur, nrecv>>
       \/ /\ peer[c] = "open"
          /\ nrecv[c] < SeqRequests(c)
          /\ cur' = [cur EXCEPT ![c] = Frame("close", "", "")]
          /\ nrecv' = [nrecv EXCEPT ![c] = @ + 1]
    /\ pc' = [pc EXCEPT ![c] = "unreg"]
    /\ fwd' = [fwd EXCEPT ![c] = "aborted"]
    /\ sender' = [sender EXCEPT ![c] = IF @ = "forwarder" THEN "free" ELSE @]
    /\ UNCHANGED <<res, adm, reply, out, peer, svars, tvars, candidate, app, ret, http,
                   lvars, hub, rxpos>>

\* (mutant) the handler writes without waiting for the mutex
HandlerLockAnyway(c) ==
    /\ pc[c] = "send"
    /\ sender' = [sender EXCEPT ![c] = "handler"]
    /\ pc' = [pc EXCEPT ![c] = "write"]
    /\ UNCHANGED <<hvars, out, peer, svars, tvars, candidate, app, ret, http, lvars, bvars>>

\* The handler has a response or a pong to write: sender_clone.lock().await
\* completes.
HandlerLock(c) ==
    /\ pc[c] = "send"
    /\ sender[c] = "free"
    /\ sender' = [sender EXCEPT ![c] = "handler"]
    /\ pc' = [pc EXCEPT ![c] = "write"]
    /\ UNCHANGED <<hvars, out, peer, svars, tvars, candidate, app, ret, http, lvars, bvars>>

\* The handler's write completes and the guard is dropped.  A response that
\* cannot be written breaks the loop; a pong's error is dropped.
HandlerSend(c) ==
    /\ pc[c] = "write"
    /\ sender' = [sender EXCEPT ![c] = "free"]
    /\ IF peer[c] = "open"
       THEN /\ out' = [out EXCEPT ![c] = Append(@, reply[c])]
            /\ pc' = [pc EXCEPT ![c] = "loop"]
            /\ UNCHANGED fwd
       ELSE /\ IF reply[c].type = "pong_frame"
               THEN pc' = [pc EXCEPT ![c] = "loop"] /\ UNCHANGED fwd
               ELSE Leave(c)
            /\ UNCHANGED out
    /\ UNCHANGED <<hvars, peer, svars, tvars, candidate, app, ret, http, lvars, hub, rxpos>>

\* The forwarder task: rx.recv() gives the next value, or Err(Lagged), which
\* ends the task.
ForwardRecv(c) ==
    /\ fwd[c] = "run"
    /\ rxpos[c] <= Len(hub)
    /\ IF Lagged(c)
       THEN /\ fwd' = [fwd EXCEPT ![c] = "exited"]
            /\ UNCHANGED rxpos
       ELSE /\ fwd' = [fwd EXCEPT ![c] = "lock"]
            /\ rxpos' = [rxpos EXCEPT ![c] = @ + 1]
    /\ UNCHANGED <<pc, hvars, out, peer, svars, tvars, cvars, lvars, hub>>

\* The forwarder task: sender_for_broadcast.lock().await completes.
ForwardLock(c) ==
    /\ fwd[c] = "lock"
    /\ sender[c] = "free"
    /\ sender' = [sender EXCEPT ![c] = "forwarder"]
    /\ fwd' = [fwd EXCEPT ![c] = "write"]
    /\ UNCHANGED <<pc, hvars, out, peer, svars, tvars, candidate, app, ret, http, lvars,
                   hub, rxpos>>

\* The forwarder task: the write of the value received completes and the
\* guard is dropped; a failed write ends the task.
ForwardSend(c) ==
    /\ fwd[c] = "write"
    /\ sender' = [sender EXCEPT ![c] = "free"]
    /\ IF peer[c] = "open"
       THEN /\ out' = [out EXCEPT ![c] = Append(@, hub[rxpos[c] - 1])]
            /\ fwd' = [fwd EXCEPT ![c] = "run"]
       ELSE /\ fwd' = [fwd EXCEPT ![c] = "exited"]
            /\ UNCHANGED out
    /\ UNCHANGED <<pc, hvars, peer, svars, tvars, candidate, app, ret, http, lvars,
                   hub, rxpos>>

\* Writer scenario: every client logs in and sends pings, transport pings,
\* mkdir requests and close frames, the backend serves the requests, and
\* each write to a peer is taken one await at a time.
NextWriter ==
    \E c \in Conns :
        \/ Connect(c)
        \/ PeerGone(c)
        \/ AuthRecv(c, Frame("login", "u", "p"))
        \/ Enqueue(c)
        \/ Register(c)
        \/ Subscribe(c)
        \/ \E k \in {"ping", "mkdir"} : RecvN(c, Frame(k, "", ""), SeqRequests(c))
        \/ ReadPingFrame(c)
        \/ LoopEnd(c)
        \/ BackendCall(c)
        \/ BackendReturn(c, "ok")
        \/ Broadcast(c)
        \/ HandlerLock(c)
        \/ HandlerSend(c)
        \/ ForwardRecv(c)
        \/ ForwardLock(c)
        \/ ForwardSend(c)
        \/ Unregister(c)

SpecWriter == InitS4 /\ [][NextWriter]_vars

\* ------------------------------------------------- the probe, step by step
\* MonitorTick is one tick in one step.  The actions below take the same
\* loop body one await and one statement at a time.  (The debug log that
\* ends the body reads active_transfers under a read lock and changes
\* nothing; it is left out.)

\* monitor_loop: the ticker fires, the readings are taken, the hints are
\* generated and the snapshot is built.
TickProbe(cpu_percent, ram_free_mb) ==
    /\ monitor.pc = "idle"
    /\ Len(hub) < MaxTicks
    /\ monitor' = [pc |-> "wait",
                   load |-> ServerLoad(cpu_percent, ram_free_mb,
                                       cpu_percent > CPU_HIGH_THRESHOLD,
                                       generate_hints(cpu_percent, ram_free_mb))]
    /\ UNCHANGED <<pc, hvars, out, peer, svars, now, held, verdict, cvars, lvars, bvars>>

\* monitor_loop: state.write().await completes, or the task joins the queue.
TickLock ==
    /\ monitor.pc = "wait"
    /\ \/ /\ CanWrite(Monitor)
          /\ writer' = Monitor
          /\ lockq' = Dequeued(Monitor)
          /\ monitor' = [monitor EXCEPT !.pc = "store"]
          /\ UNCHANGED readers
       \/ /\ ~CanWrite(Monitor)
          /\ ~InQueue(Monitor)
          /\ lockq' = Append(lockq, Monitor)
          /\ UNCHANGED <<monitor, readers, writer>>
    /\ UNCHANGED <<pc, hvars, out, peer, svars, now, held, verdict, cvars, bvars>>

\* (mutant) the guard is dropped once the snapshot is stored
TickStoreUnlock ==
    /\ monitor.pc = "store"
    /\ load' = monitor.load
    /\ writer' = NoTask
    /\ monitor' = [monitor EXCEPT !.pc = "publish"]
    /\ UNCHANGED <<pc, hvars, out, peer, clients, active_transfers, max_concurrent_transfers,
                   event_capacity, now, held, verdict, cvars, readers, lockq, bvars>>

\* monitor_loop: s.load = load.clone()
TickStore ==
    /\ monitor.pc = "store"
    /\ load' = monitor.load
    /\ monitor' = [monitor EXCEPT !.pc = "publish"]
    /\ UNCHANGED <<pc, hvars, out, peer, clients, active_transfers, max_concurrent_transfers,
                   event_capacity, now, held, verdict, cvars, lvars, bvars>>

\* monitor_loop: s.broadcast(ServerMessage::Load(load)), and the write guard
\* is dropped at the end of the block.
TickPublish ==
    /\ monitor.pc = "publish"
    /\ hub' = broadcast(hub, LoadMsg(monitor.load))
    /\ writer' = NoTask
    /\ monitor' = [monitor EXCEPT !.pc = "idle"]
    /\ UNCHANGED <<pc, hvars, out, peer, svars, now, held, verdict, cvars, readers, lockq,
                   rxpos, fwd>>

\* Probe scenario: the probe ticks step by step while every client logs in,
\* sends list_dir, download and capabilities requests, which the backend
\* serves, and is forwarded what is published.
NextProbe ==
    \/ \E cpu \in {80, 96} : TickProbe(cpu, 500)
    \/ TickLock
    \/ TickStore
    \/ TickPublish
    \/ \E c \in Conns :
          \/ Connect(c)
          \/ AuthRecv(c, Frame("login", "u", "p"))
          \/ Enqueue(c)
          \/ Register(c)
          \/ Subscribe(c)
          \/ \E f \in {Frame("list_dir", "", ""), Frame("download", "", ""),
                       Frame("capabilities", "workstation", "")} : Recv(c, f)
          \/ StartCheck(c)
          \/ StartCommit(c)
          \/ BackendCall(c)
          \/ BackendReturn(c, "ok")
          \/ EndTransfer(c)
          \/ Capabilities(c)
          \/ Send(c)
          \/ Forward(c)

SpecProbe == InitS4 /\ [][NextProbe]_vars

\* ------------------------------------------------------------- claims
\* A session is inside an admitted download or upload: start_transfer has
\* counted it in and end_transfer has not yet run.
InTransfer(c) == cur[c].kind \in TransferKinds /\ pc[c] \in {"io_wait", "io", "end"}

\* C1: in every reachable state 0 <= active_transfers <=
\* max_concurrent_transfers, whatever the interleaving of the sessions'
\* start_transfer and end_transfer calls; end_transfer at 0 leaves 0.
TransferBound ==
    /\ active_transfers \in 0..max_concurrent_transfers
    /\ end_transfer(0) = 0

\* C1 witness: the counter is at its maximum and a further start_transfer
\* has been refused there.
TransferBoundWitness ==
    /\ active_transfers = max_concurrent_transfers
    /\ \E c \in Conns : pc[c] = "send" /\ reply[c].detail = TooMany

\* C2: start_transfer is an indivisible check-and-increment.  Between its
\* check and its increment the caller holds the lock alone, the counter is
\* still the one it checked and no other session changes it; the call then
\* raises the counter by exactly one iff it was below the maximum, and
\* otherwise rejects and leaves it unchanged.
StartTransferAtomic ==
    /\ [](\A c \in Conns : pc[c] = "start_inc" =>
            /\ writer = c
            /\ adm[c] = (active_transfers < max_concurrent_transfers)
            /\ \A d \in Conns \ {c} : pc[d] # "start_inc")
    /\ [][\A c \in Conns : pc[c] = "start_inc" =>
            IF pc'[c] = "start_inc"
            THEN active_transfers' = active_transfers
            ELSE IF active_transfers < max_concurrent_transfers
                 THEN /\ active_transfers' = active_transfers + 1
                      /\ pc'[c] = "io_wait"
                 ELSE /\ active_transfers' = active_transfers
                      /\ pc'[c] = "send"
                      /\ reply'[c].type = "op_error"]_vars

\* C2 witness: a start_transfer has made its check at a full counter while
\* another session holds a transfer slot.
StartTransferAtomicWitness ==
    \E c \in Conns : \E d \in Conns \ {c} :
        pc[c] = "start_inc" /\ ~adm[c] /\ InTransfer(d)

\* C3: the counter never leaks: it equals the number of sessions inside an
\* admitted download or upload, so it is 0 when none is in flight.
NoTransferLeak ==
    active_transfers = Cardinality({c \in Conns : InTransfer(c)})

\* C3 witness: an admitted transfer failed at the backend, its slot is
\* released and the error is about to be sent.
NoTransferLeakWitness ==
    \E c \in Conns :
        /\ pc[c] = "send"
        /\ cur[c].kind \in TransferKinds
        /\ reply[c].detail = "backend error"
        /\ active_transfers = 0

\* C5: a download or upload refused by admission control is answered with
\* op_error carrying the fixed message; from the refusal to the reply the
\* handler makes no backend call, the counter, the hub and the registry are
\* unchanged, and the session is back in its dispatch loop, registered.
AdmissionRejection ==
    [][\A c \in Conns :
        /\ (pc[c] = "start_inc" /\ ~adm[c] /\ pc'[c] # "start_inc") =>
              /\ pc'[c] = "send"
              /\ reply'[c] = Msg("op_error", OpName(cur[c].kind), TooMany)
              /\ UNCHANGED <<active_transfers, hub, readers, clients>>
        /\ (pc[c] = "send" /\ reply[c].detail = TooMany
               /\ pc'[c] # "send" /\ peer[c] = "open") =>
              /\ pc'[c] = "loop"
              /\ out'[c] = Append(out[c], reply[c])
              /\ c \in DOMAIN clients'
              /\ UNCHANGED <<active_transfers, hub, readers, clients>>]_vars

\* C5 witness: a refused session has its op_error and is back in the loop.
AdmissionRejectionWitness ==
    \E c \in Conns :
        /\ pc[c] = "loop"
        /\ c \in DOMAIN clients
        /\ out[c] # <<>>
        /\ out[c][Len(out[c])] = Msg("op_error", OpName(cur[c].kind), TooMany)

\* The handler positions of a session that is registered and not yet
\* leaving: the Active state.
ActivePcs == {"sub", "loop", "refresh", "start", "start_inc", "io_wait", "io",
              "end", "bcast", "caps", "send"}

\* C6 (as claimed): a connection that has logged in and is Active was sent
\* auth_success before anything else.
LoginAnswersAuthSuccess ==
    \A c \in Conns :
        (pc[c] \in ActivePcs /\ peer[c] = "open") =>
            (out[c] # <<>> /\ out[c][1].type = "auth_success")

\* C7 (as claimed): once a login with an empty username or password is the
\* last frame read during AwaitingAuth, the connection is Terminated with
\* auth_error sent, and it is not registered.
BadLoginTerminates ==
    \A c \in Conns :
        (pc[c] \in {"await_auth", "rejected"} /\ cur[c].kind = "login"
            /\ (cur[c].x = "" \/ cur[c].y = "")) =>
            (pc[c] = "rejected" /\ out[c] = <<AuthRequired>>)

\* C8: a connection leaves AwaitingAuth without a valid login only into
\* Terminated, where it has been sent auth_error (if its peer is still
\* there) and was never registered; and once the deadline is fair no
\* connection stays in AwaitingAuth forever.
AuthDeadline ==
    /\ [](\A c \in Conns :
            /\ pc[c] \in {"idle", "await_auth", "rejected"} =>
                  (c \notin DOMAIN clients /\ fwd[c] = "none")
            /\ pc[c] = "rejected" =>
                  out[c] = IF peer[c] = "open" THEN <<AuthRequired>> ELSE <<>>)
    /\ [][\A c \in Conns : (pc[c] = "await_auth" /\ pc'[c] # "await_auth") =>
            \/ pc'[c] = "rejected"
            \/ /\ pc'[c] = "reg"
               /\ cur'[c].kind = "login" /\ cur'[c].x # "" /\ cur'[c].y # ""]_vars
    /\ \A c \in Conns : (pc[c] = "await_auth") ~> (pc[c] # "await_auth")

\* C8 witness: a connection that only ever sent a bad login was timed out
\* and holds its auth_error.
AuthDeadlineWitness ==
    \E c \in Conns :
        /\ pc[c] = "rejected"
        /\ cur[c] = Frame("login", "u", "")
        /\ out[c] = <<AuthRequired>>

\* C9: authentication gates dispatch.  A connection that has not logged in
\* is not registered, holds and awaits no lock, has no forwarder and has
\* been sent nothing but auth_error; a frame it sends changes neither the
\* registry, the counter, the hub nor the lock, and only a login with
\* non-empty username and password takes it out of AwaitingAuth.
AuthGatesDispatch ==
    /\ [](\A c \in Conns : pc[c] \in {"idle", "await_auth", "rejected"} =>
            /\ c \notin DOMAIN clients
            /\ c \notin readers /\ writer # c /\ ~InQueue(c)
            /\ fwd[c] = "none"
            /\ \A i \in 1..Len(out[c]) : out[c][i].type = "auth_error")
    /\ [][\A c \in Conns :
            (pc[c] = "await_auth" /\ (pc'[c] # pc[c] \/ cur'[c] # cur[c])) =>
                /\ UNCHANGED <<clients, active_transfers, hub, readers, writer,
                               lockq, rxpos, fwd>>
                /\ out'[c] \in {out[c], Append(out[c], AuthRequired)}
                /\ pc'[c] \in {"await_auth", "rejected", "reg"}
                /\ pc'[c] = "reg" =>
                      (cur'[c].kind = "login" /\ cur'[c].x # "" /\ cur'[c].y # "")]_vars

\* C9 witness: a download was sent before login and the connection still
\* waits for its login, with nothing sent and nothing started.
AuthGatesDispatchWitness ==
    \E c \in Conns :
        /\ pc[c] = "await_auth"
        /\ cur[c].kind = "download"
        /\ out[c] = <<>>
        /\ active_transfers = 0

\* C10 (as claimed): when a mutating operation has succeeded and its
\* fs_event is broadcast, the event is enqueued for every other session
\* that is Active and connected at that moment.
FsEventReachesActive ==
    [][\A c \in Conns : (pc[c] = "bcast" /\ pc'[c] = "send") =>
          \A d \in Conns \ {c} :
              (pc[d] \in ActivePcs /\ peer[d] = "open") =>
                  /\ fwd[d] = "run"
                  /\ ~Lagged(d)
                  /\ hub' = Append(hub, FsEventFor(cur[c].kind))]_vars

\* C4: with max_concurrent_transfers = 1 at most one download holds the
\* slot; a download whose admission is decided while another session holds
\* the slot gets op_error "download" / "Too many concurrent transfers" and
\* the holder gets file_content; a download decided when no session holds
\* the slot (the earlier one has completed) is admitted.
SingleSlotDownloads ==
    /\ [](Cardinality({c \in Conns : InTransfer(c)}) <= 1)
    /\ [][\A c \in Conns :
            /\ (pc[c] = "start_inc" /\ pc'[c] # "start_inc") =>
                  IF \E d \in Conns \ {c} : InTransfer(d)
                  THEN /\ pc'[c] = "send"
                       /\ reply'[c] = Msg("op_error", "download", TooMany)
                  ELSE pc'[c] = "io_wait"
            /\ (pc[c] = "end" /\ pc'[c] # "end") =>
                  (pc'[c] = "send" /\ reply'[c].type = "file_content")
            /\ (pc[c] = "send" /\ pc'[c] # "send") =>
                  out'[c] = Append(out[c], reply[c])]_vars

\* C4 witness: one session got file_content; the other was refused while
\* the first held the slot, asked again later and got file_content.
SingleSlotDownloadsWitness ==
    \E c \in Conns : \E d \in Conns \ {c} :
        /\ out[c] # <<>> /\ out[c][1].type = "file_content"
        /\ Len(out[d]) = 2
        /\ out[d][1] = Msg("op_error", "download", TooMany)
        /\ out[d][2].type = "file_content"

\* C11: broadcast isolation.  A publisher that has the read lock publishes
\* at once, whatever its subscribers' queues hold; the message is appended
\* to the hub whenever a forwarder is subscribed, and every subscriber that
\* had drained its queue finds it next, not lagged, even while another
\* subscriber's queue is full.
BroadcastIsolation ==
    /\ [](\A c \in Conns : (pc[c] = "bcast" /\ CanRead(c)) => ENABLED Broadcast(c))
    /\ [][\A c \in Conns : (pc[c] = "bcast" /\ pc'[c] = "send") =>
            \A d \in Receivers :
                /\ hub' = Append(hub, FsEventFor(cur[c].kind))
                /\ fwd'[d] = "run"
                /\ rxpos[d] = Len(hub) + 1 =>
                      /\ Len(hub') - rxpos'[d] + 1 <= event_capacity
                      /\ hub'[rxpos'[d]] = FsEventFor(cur[c].kind)]_vars

\* C11 witness: one subscriber's queue was already full when the last
\* message was published, and another subscriber has been forwarded that
\* message.
BroadcastIsolationWitness ==
    \E e \in Conns : \E d \in Conns \ {e} :
        /\ fwd[e] = "run" /\ rxpos[e] < Len(hub)
        /\ fwd[d] = "run" /\ rxpos[d] = Len(hub) + 1
        /\ out[d] # <<>> /\ out[d][Len(out[d])] = hub[Len(hub)]

\* C12 (as claimed): while a session is Active and its peer is there, its
\* forwarder runs, however far the session fell behind.
ForwarderSurvivesLag ==
    \A c \in Conns :
        (pc[c] \in ActivePcs \ {"sub"} /\ peer[c] = "open") => fwd[c] = "run"

\* C13: teardown.  A session that reads a close frame, finds its stream
\* ended (after a transport failure, whose error item it reads first) or
\* fails to write a reply leaves the loop with its forwarder aborted; the
\* cleanup removes its id from the registry; and when handler tasks are
\* scheduled and backend calls return, it reaches Terminated.
Teardown ==
    /\ [](\A c \in Conns :
            /\ pc[c] \in {"unreg", "closed"} => fwd[c] = "aborted"
            /\ pc[c] = "closed" => c \notin DOMAIN clients)
    /\ [][\A c \in Conns :
            /\ (pc[c] = "loop" /\ nrecv'[c] # nrecv[c] /\ cur'[c].kind = "close") =>
                  (pc'[c] = "unreg" /\ fwd'[c] = "aborted")
            /\ (pc[c] = "loop" /\ nrecv'[c] # nrecv[c] /\ cur'[c].kind = "error") =>
                  (pc'[c] = "loop" /\ peer'[c] = "gone")
            /\ (pc[c] \in {"loop", "send"} /\ peer[c] = "gone" /\ pc'[c] # pc[c]) =>
                  (pc'[c] = "unreg" /\ fwd'[c] = "aborted")
            /\ (pc[c] = "unreg" /\ pc'[c] # "unreg") =>
                  (pc'[c] = "closed" /\ c \notin DOMAIN clients')]_vars
    /\ \A c \in Conns : (pc[c] \in ActivePcs /\ peer[c] = "gone") ~> (pc[c] = "closed")
    /\ \A c \in Conns : (pc[c] = "unreg") ~> (pc[c] = "closed")

\* C13 witness: a session whose stream failed is Terminated, forwarder
\* aborted and id removed, while another session is still registered.
TeardownWitness ==
    \E c \in Conns :
        /\ pc[c] = "closed" /\ cur[c].kind = "error"
        /\ fwd[c] = "aborted" /\ c \notin DOMAIN clients
        /\ clients # NoClients

\* C15 (as claimed): a refresh_token request is answered, the session
\* staying Active and registered, with auth_success iff the token is
\* correctly signed, unexpired (current time < expires-at) and of kind
\* refresh; a signed, unexpired access token gets auth_error naming the
\* wrong kind.
RefreshAnswer ==
    [][\A c \in Conns : (pc[c] = "refresh" /\ pc'[c] # "refresh") =>
          LET claims == TokenClaims(cur[c].x) IN
          /\ pc'[c] = "send"
          /\ c \in DOMAIN clients'
          /\ reply'[c].type \in {"auth_success", "auth_error"}
          /\ (reply'[c].type = "auth_success") <=>
                (claims.signed /\ claims.exp > 0 /\ claims.token_type = "refresh")
          /\ (claims.signed /\ claims.exp > 0 /\ claims.token_type = "access") =>
                reply'[c] = Msg("auth_error", "", WrongKind)]_vars

\* C16 (as claimed): a handler whose backend call is in flight holds
\* neither the shared nor the exclusive Server State lock.
NoLockAcrossIO ==
    \A c \in Conns : pc[c] = "io" => (c \notin readers /\ writer # c)

\* C14: an Active session leaves Active only into teardown, and only when
\* its peer is gone (stream ended, write failed) or it has just read a
\* close frame.  A failed backend call, a refused token and a refused
\* admission each become an error response (op_error, auth_error,
\* op_error); writing an error response to a peer that is there puts the
\* session back in its loop, registered.
ErrorsKeepSession ==
    [][\A c \in Conns :
        /\ (pc[c] \in ActivePcs /\ pc'[c] \notin ActivePcs) =>
              /\ pc'[c] = "unreg"
              /\ peer[c] = "gone" \/ (nrecv'[c] # nrecv[c] /\ cur'[c].kind = "close")
        /\ (pc[c] \in {"io", "end"} /\ pc'[c] = "send" /\ res'[c] = "err") =>
              reply'[c] = Msg("op_error", OpName(cur[c].kind), "backend error")
        /\ (pc[c] = "start_inc" /\ pc'[c] = "send") =>
              reply'[c] = Msg("op_error", OpName(cur[c].kind), TooMany)
        /\ (pc[c] = "refresh" /\ pc'[c] = "send"
               /\ (decode_token(cur[c].x) # "ok" \/ TokenClaims(cur[c].x).token_type # "refresh")) =>
              reply'[c].type = "auth_error"
        /\ (pc[c] = "send" /\ reply[c].type \in {"op_error", "auth_error"}
               /\ peer[c] = "open" /\ pc'[c] # "send") =>
              /\ pc'[c] = "loop"
              /\ out'[c] = Append(out[c], reply[c])
              /\ c \in DOMAIN clients'
              /\ fwd'[c] = fwd[c]]_vars

\* C14 witness: a session was answered auth_error and then op_error for a
\* failed backend call, and is in its loop, registered, with its peer there.
ErrorsKeepSessionWitness ==
    \E c \in Conns :
        /\ pc[c] = "loop" /\ peer[c] = "open" /\ c \in DOMAIN clients
        /\ Len(out[c]) = 2
        /\ out[c][1] = Msg("auth_error", "", WrongKind)
        /\ out[c][2] = Msg("op_error", "mkdir", "backend error")

\* C17: replies keep the order of their requests.  A session reads its next
\* request only from its loop, when no request of its own is in flight; the
\* count of requests read never goes down; the response written answers the
\* request read last; and every write to the peer, a reply or a forwarded
\* broadcast, is appended after all that was written before.
RepliesInOrder ==
    [][\A c \in Conns :
        /\ nrecv'[c] >= nrecv[c]
        /\ nrecv'[c] # nrecv[c] => (pc[c] = "loop" /\ nrecv'[c] = nrecv[c] + 1)
        /\ (pc[c] \in ActivePcs \ {"sub", "loop"}) => cur'[c] = cur[c]
        /\ out'[c] # out[c] =>
              (Len(out'[c]) = Len(out[c]) + 1 /\ SubSeq(out'[c], 1, Len(out[c])) = out[c])
        /\ (pc[c] = "send" /\ pc'[c] = "loop") =>
              /\ out'[c] = Append(out[c], reply[c])
              /\ reply[c].type \in ReplyKinds(cur[c].kind)]_vars

\* C17 witness: a session's download was answered, a broadcast of another
\* session's mkdir was forwarded to it, and then its ping was answered.
RepliesInOrderWitness ==
    \E c \in Conns :
        /\ nrecv[c] = 2 /\ cur[c].kind = "ping"
        /\ Len(out[c]) = 3
        /\ out[c][1].type = "file_content"
        /\ out[c][2].type = "fs_event"
        /\ out[c][3].type = "pong"

\* C18: one request, at most one reply.  The handler comes back to its loop
\* from a request that has a reply only by writing that one reply, of a
\* type its kind allows, and from capabilities without writing; login and
\* offload_result leave the session in its loop with nothing written; and
\* nothing but that write, a forwarded broadcast or a transport pong is ever
\* written to the peer of an Active session.
OneReply ==
    [][\A c \in Conns :
        /\ (pc[c] \in ActivePcs \ {"sub", "loop"} /\ pc'[c] = "loop") =>
              IF ReplyKinds(cur[c].kind) # {}
              THEN /\ pc[c] = "send"
                   /\ out'[c] = Append(out[c], reply[c])
                   /\ reply[c].type \in ReplyKinds(cur[c].kind)
              ELSE /\ cur[c].kind = "capabilities"
                   /\ out'[c] = out[c]
        /\ (pc[c] = "loop" /\ nrecv'[c] # nrecv[c]) =>
              /\ cur'[c].kind \in {"login", "offload_result"} =>
                    (pc'[c] = "loop" /\ out'[c] = out[c] /\ clients' = clients)
              /\ cur'[c].kind = "capabilities" => (pc'[c] = "caps" /\ out'[c] = out[c])
              /\ ReplyKinds(cur'[c].kind) # {} =>
                    (pc'[c] \in ActivePcs \ {"sub", "loop", "caps"} /\ out'[c] = out[c])
        /\ (pc[c] \in ActivePcs /\ out'[c] # out[c]) =>
              \/ pc[c] = "send" /\ pc'[c] = "loop"
              \/ rxpos'[c] = rxpos[c] + 1 /\ out'[c] = Append(out[c], hub[rxpos[c]])
              \/ nrecv'[c] # nrecv[c] /\ cur'[c].kind = "ping_frame"]_vars

\* C18 witness: one session's rename was answered op_success; the other
\* sent capabilities, which were stored, and was written nothing.
OneReplyWitness ==
    \E c \in Conns : \E d \in Conns \ {c} :
        /\ cur[c].kind = "rename" /\ pc[c] = "loop"
        /\ out[c] # <<>> /\ out[c][1] = Msg("op_success", "rename", "")
        /\ cur[d].kind = "capabilities" /\ pc[d] = "loop"
        /\ d \in DOMAIN clients /\ clients[d].capabilities = {cur[d].x}
        /\ out[d] = <<>>

\* The hints of a list, as a set.
HintSet(hs) == {hs[i] : i \in 1..Len(hs)}

\* C19 (as claimed): every load report published carries the union of the
\* CPU tier's and the RAM tier's hints, in definition order, each hint at
\* most once; none when cpu < 80 and ram > 100.
HintsUnionOnce ==
    [][load' # load =>
          LET cpu == load'.cpu_percent
              ram == load'.ram_free_mb
              tiers == (IF cpu >= 95 THEN HintSet(LoadHint)
                        ELSE IF cpu >= 80
                             THEN {"throttle_transfers", "generate_thumbnails_locally"}
                             ELSE {})
                       \cup (IF ram <= 50 THEN {"throttle_transfers", "recovering"}
                             ELSE IF ram <= 100 THEN {"search_locally"} ELSE {})
              IsTier(h) == h \in tiers
          IN /\ load'.hints = SelectSeq(LoadHint, IsTier)
             /\ (cpu < 80 /\ ram > 100) => load'.hints = <<>>
             /\ Receivers # {} => hub'[Len(hub')] = LoadMsg(load')]_vars

\* C20: hints are monotone in CPU.  When a tick reads the same free RAM as
\* the tick before it and a CPU at least as high, every hint of the earlier
\* report is in the later one.
HintsMonotoneInCpu ==
    [][(load'.ram_free_mb = load.ram_free_mb /\ load.cpu_percent <= load'.cpu_percent) =>
          HintSet(load.hints) \subseteq HintSet(load'.hints)]_vars

\* C20 witness: two reports in a row with the same free RAM, the CPU going
\* from the high tier to the critical tier, and the hints growing.
HintsMonotoneInCpuWitness ==
    /\ Len(hub) = 2
    /\ hub[1].detail.ram_free_mb = hub[2].detail.ram_free_mb
    /\ hub[1].detail.cpu_percent = 80 /\ hub[2].detail.cpu_percent = 95
    /\ HintSet(hub[1].detail.hints) \subseteq HintSet(hub[2].detail.hints)
    /\ HintSet(hub[1].detail.hints) # HintSet(hub[2].detail.hints)
    /\ load = hub[2].detail

\* C21 (as claimed): hints are monotone in free RAM.  When a tick reads the
\* same CPU as the tick before it and no more free RAM, every hint of the
\* earlier report is in the later one.
HintsMonotoneInRam ==
    [][(load'.cpu_percent = load.cpu_percent /\ load'.ram_free_mb <= load.ram_free_mb) =>
          HintSet(load.hints) \subseteq HintSet(load'.hints)]_vars

\* C22: token round-trip.  The access token of generate_tokens(u, d)
\* carries u, d and kind access, and at every second before its expiry
\* verify_access_token accepts it and returns those claims; so does every
\* such call made.
TokenRoundTrip ==
    [][/\ (verdict'.op = "issue" /\ verdict' # verdict) =>
            \A t \in now..(held'.access_token.claims.exp - 1) :
                LET r == verify_access_token(held'.access_token, t) IN
                /\ r.ok
                /\ r.claims.sub = verdict'.sub
                /\ r.claims.device_id = verdict'.dev
                /\ r.claims.token_type = "access"
       /\ (verdict'.op = "verify" /\ verdict' # verdict /\ verdict'.which = "access"
              /\ now < held.access_token.claims.exp) =>
            /\ verdict'.result.ok
            /\ verdict'.result.claims.sub = verdict.sub
            /\ verdict'.result.claims.device_id = verdict.dev
            /\ verdict'.result.claims.token_type = "access"]_vars

\* C22 witness: the access token issued for user "v" on device "d" was
\* verified a second before its expiry and gave those claims.
TokenRoundTripWitness ==
    /\ verdict.op = "verify" /\ verdict.which = "access" /\ verdict.result.ok
    /\ verdict.n = 0 /\ verdict.sub = "v" /\ verdict.dev = "d"
    /\ verdict.result.claims = Claims("v", now + 1, now + 1 - AccessTtl, "access", "d")

\* C23: token kinds are kept apart.  verify_access_token never accepts the
\* refresh token of an issued pair and refresh_tokens never accepts its
\* access token nor issues a pair for it; while the token is unexpired the
\* error is the wrong-kind error.
KindSeparation ==
    [][/\ (verdict'.op = "verify" /\ verdict' # verdict /\ verdict'.which = "refresh") =>
            /\ ~verdict'.result.ok
            /\ now < held.refresh_token.claims.exp => verdict'.result.err = WrongKindAccess
       /\ (verdict'.op = "refresh" /\ verdict' # verdict /\ verdict'.which = "access") =>
            /\ ~verdict'.result.ok
            /\ verdict'.result.pair = NoPair
            /\ held' = held
            /\ now < held.access_token.claims.exp => verdict'.result.err = WrongKind]_vars

\* C23 witness: refresh_tokens was called on an access token a second after
\* its issue and failed with the wrong-kind error, the held pair unchanged.
KindSeparationWitness ==
    /\ verdict.op = "refresh" /\ verdict.which = "access"
    /\ verdict.result.err = WrongKind
    /\ verdict.at = held.access_token.claims.iat + 1
    /\ verdict.n = 0

\* C24: refresh preserves identity.  Through any chain of refreshes the
\* held pair carries the username and device id it was first issued for,
\* each successful refresh returns a pair for the subject and device of the
\* token presented, and the new access token verifies to them at every
\* second before its expiry.
RefreshPreservesIdentity ==
    /\ [](held # NoPair =>
            /\ held.access_token.claims.sub = verdict.sub
            /\ held.access_token.claims.device_id = verdict.dev
            /\ held.refresh_token.claims.sub = verdict.sub
            /\ held.refresh_token.claims.device_id = verdict.dev)
    /\ [][(verdict'.op = "refresh" /\ verdict'.result.ok /\ verdict' # verdict) =>
            /\ held' = verdict'.result.pair
            /\ \A t \in now..(held'.access_token.claims.exp - 1) :
                  LET r == verify_access_token(held'.access_token, t) IN
                  /\ r.ok
                  /\ r.claims.sub = held.refresh_token.claims.sub
                  /\ r.claims.device_id = held.refresh_token.claims.device_id]_vars

\* C24 witness: after three chained refreshes, each a second after the
\* last, the access token held verifies to the user and device of the issue.
RefreshPreservesIdentityWitness ==
    /\ verdict.op = "verify" /\ verdict.which = "access" /\ verdict.result.ok
    /\ verdict.n = MaxChain /\ verdict.sub = "u" /\ verdict.dev = "d"
    /\ held.access_token.claims.iat = MaxChain
    /\ verdict.result.claims.sub = "u" /\ verdict.result.claims.device_id = "d"

\* C25 (as claimed): every token issued has issued-at <= expires-at, and a
\* token is accepted by verify_access_token or refresh_tokens only while
\* current time < expires-at.
ValidityWindow ==
    /\ [](held # NoPair =>
            /\ held.access_token.claims.iat <= held.access_token.claims.exp
            /\ held.refresh_token.claims.iat <= held.refresh_token.claims.exp)
    /\ [][(verdict'.op \in {"verify", "refresh"} /\ verdict' # verdict
              /\ verdict'.result.ok) =>
            now < Presented(verdict'.which).claims.exp]_vars

\* C26: find_offload_candidate(task) returns a session exactly when some
\* registered session has reported capabilities with on_ac_power, at least
\* 500 MB of free RAM and the task's condition (thumbnail: thumbnails and a
\* GPU or 4 cores; search: local search and 4 cores); the session returned
\* meets them, and a session that has reported nothing is never returned.
OffloadCandidate ==
    [][candidate' # candidate =>
        LET task == candidate'.task
            id == candidate'.client
            Meets(c) ==
                /\ c \in DOMAIN clients
                /\ clients[c].capabilities # {}
                /\ \A n \in clients[c].capabilities :
                      /\ CapsOf(n).on_ac_power = TRUE
                      /\ CapsOf(n).ram_free_mb >= 500
                      /\ task = "thumbnail" =>
                            /\ CapsOf(n).can_generate_thumbnails
                            /\ CapsOf(n).has_gpu \/ CapsOf(n).cpu_cores >= 4
                      /\ task = "search" =>
                            /\ CapsOf(n).can_search_locally
                            /\ CapsOf(n).cpu_cores >= 4
        IN  /\ (id # NoCandidate) <=> (\E c \in Conns : Meets(c))
            /\ id # NoCandidate => Meets(id)
    ]_vars

\* A session that cannot make thumbnails was returned for a search while
\* another registered session had reported nothing.
OffloadCandidateWitness ==
    /\ candidate.task = "search"
    /\ candidate.client \in DOMAIN clients
    /\ clients[candidate.client].capabilities = {"no_thumbnails"}
    /\ \E c \in DOMAIN clients : clients[c].capabilities = {}

\* C29: straight after a cursor move that changed the cursor from a to b,
\* undo returns true and puts the cursor back on a, and a redo straight after
\* that undo puts it on b again; undo with an empty undo stack returns false
\* and changes nothing, and so does redo with an empty redo stack.
UndoRedoRoundTrip ==
    [][ret' # ret =>
        /\ (ret.stage = 1 /\ ret'.op = "undo") =>
               (ret'.value = "true" /\ app'.cursor = ret.from)
        /\ (ret.stage = 2 /\ ret'.op = "redo") =>
               (ret'.value = "true" /\ app'.cursor = ret.from)
        /\ (ret'.op = "undo" /\ app.undo_stack = <<>>) =>
               (ret'.value = "false" /\ app' = app)
        /\ (ret'.op = "redo" /\ app.redo_stack = <<>>) =>
               (ret'.value = "false" /\ app' = app)
    ]_vars

\* A cursor move, its undo and the redo of it have just run, and the cursor
\* is off the first entry.
UndoRedoRoundTripWitness ==
    /\ ret.op = "redo" /\ ret.stage = 3 /\ ret.value = "true"
    /\ app.cursor # ret.from
    /\ app.cursor > 0

\* C27: POST /api/login answers 401 when the username or the password is
\* empty and otherwise 200 with a token pair whose access token verifies to
\* the username; either way no session is registered, the transfer counter
\* keeps its value and nothing is broadcast.
HttpLoginContract ==
    [][http' # http =>
        /\ (http'.status = 401) <=> (http'.username = "" \/ http'.password = "")
        /\ http'.status = 401 => http'.tokens = NoPair
        /\ http'.status # 401 =>
              /\ http'.status = 200
              /\ verify_access_token(http'.tokens.access_token, now).ok
              /\ verify_access_token(http'.tokens.access_token, now).claims.sub
                    = http'.username
        /\ clients' = clients
        /\ active_transfers' = active_transfers
        /\ hub' = hub
        /\ out' = out
    ]_vars

\* A login over HTTP was answered 200 while a session was registered and in
\* a transfer, and the access token returned has since been verified.
HttpLoginContractWitness ==
    /\ http.status = 200 /\ held = http.tokens
    /\ verdict.op = "verify" /\ verdict.result.ok /\ verdict.result.claims.sub = http.username
    /\ DOMAIN clients # {} /\ active_transfers > 0

\* C28 (as claimed): in every reachable state at most 32 broadcast messages
\* (ClientCapacity, scaled) wait for any one session's forwarder, and the hub
\* holds at most 100 (FanoutCapacity, scaled).
FanoutBounds ==
    /\ \A c \in Conns : Pending(c) <= ClientCapacity
    /\ \A c \in Receivers : Pending(c) <= FanoutCapacity

\* C30 (as claimed): a session is registered together with its subscription:
\* whenever a message is broadcast, every session in the registry whose
\* forwarder has not ended holds a receiver, and the message is put on the
\* hub for it.
RegisteredIsSubscribed ==
    [][\A c \in Conns : (pc[c] = "bcast" /\ pc'[c] = "send") =>
          \A d \in DOMAIN clients :
              fwd[d] \in {"none", "run"} =>
                  /\ fwd[d] = "run"
                  /\ hub' = Append(hub, FsEventFor(cur[c].kind))]_vars

\* C31: an fs_event is broadcast only for a backend operation that
\* succeeded.  The hub changes only when a session whose upload, delete,
\* rename or mkdir came back ok passes that request's fs_event to broadcast
\* and goes on to answer op_success; a response of any other type (op_error
\* for a failed backend call or a refused admission, pong, auth_success,
\* auth_error, dir_listing, file_content) is reached with the hub unchanged,
\* and so are capabilities and offload_result, which have no response; and a
\* mutating request that succeeded passes exactly one fs_event to broadcast
\* before its op_success, which the hub takes whenever it has a receiver.
FsEventOnlyOnSuccess ==
    /\ [](\A c \in Conns : pc[c] = "bcast" =>
            (cur[c].kind \in {"upload"} \cup MutateKinds /\ res[c] = "ok"))
    /\ [][\A c \in Conns :
            /\ hub' # hub =>
                  \E d \in Conns :
                      /\ pc[d] = "bcast" /\ pc'[d] = "send"
                      /\ cur[d].kind \in {"upload"} \cup MutateKinds /\ res[d] = "ok"
                      /\ hub' = Append(hub, FsEventFor(cur[d].kind))
            /\ (pc[c] # "send" /\ pc'[c] = "send" /\ reply'[c].type # "op_success") =>
                  hub' = hub
            /\ (pc[c] = "loop" /\ nrecv'[c] # nrecv[c]) => hub' = hub
            /\ (pc[c] = "caps" /\ pc'[c] # "caps") => hub' = hub
            /\ (pc[c] = "io" /\ pc'[c] # "io" /\ cur[c].kind \in MutateKinds) =>
                  IF res'[c] = "ok"
                  THEN pc'[c] = "bcast"
                  ELSE pc'[c] = "send" /\ reply'[c].type = "op_error"
            /\ (pc[c] = "end" /\ pc'[c] # "end" /\ cur[c].kind = "upload") =>
                  IF res[c] = "ok"
                  THEN pc'[c] = "bcast"
                  ELSE pc'[c] = "send" /\ reply'[c].type = "op_error"
            /\ (pc[c] # "send" /\ pc'[c] = "send" /\ reply'[c].type = "op_success") =>
                  /\ pc[c] = "bcast"
                  /\ hub' = broadcast(hub, FsEventFor(cur[c].kind))
                  /\ Receivers # {} => Len(hub') = Len(hub) + 1]_vars

\* C31 witness: one session's delete failed at the backend and was answered
\* op_error, the other's rename succeeded and was answered op_success, and
\* the hub holds the one fs_event of the rename.
FsEventOnlyOnSuccessWitness ==
    \E c \in Conns : \E d \in Conns \ {c} :
        /\ cur[c].kind = "delete" /\ out[c] # <<>>
        /\ out[c][Len(out[c])] = Msg("op_error", "delete", "backend error")
        /\ cur[d].kind = "rename" /\ out[d] # <<>>
        /\ out[d][Len(out[d])] = Msg("op_success", "rename", "")
        /\ hub = <<FsEventFor("rename")>>

\* The broadcast messages written to c's peer, in the order of their writing.
Forwarded(c) == SelectSeq(out[c], LAMBDA m : m.type \in {"fs_event", "load"})

\* C32: every subscriber is forwarded broadcasts in the hub's enqueue order.
\* What a session has been forwarded is a run of the hub's log, in the log's
\* order and each position once, that ends just before its receiver's next
\* position; each forwarding step writes the value at the receiver's
\* position after all that was written before and moves the receiver on by
\* one, the receiver never moves back, and the log itself only grows at its
\* end.
BroadcastOrder ==
    /\ [](\A c \in Conns :
            Forwarded(c) # <<>> =>
                /\ rxpos[c] - Len(Forwarded(c)) >= 1
                /\ rxpos[c] - 1 <= Len(hub)
                /\ Forwarded(c) = SubSeq(hub, rxpos[c] - Len(Forwarded(c)), rxpos[c] - 1))
    /\ [][/\ hub' # hub => (Len(hub') = Len(hub) + 1 /\ SubSeq(hub', 1, Len(hub)) = hub)
          /\ \A c \in Conns :
               /\ rxpos'[c] >= rxpos[c]
               /\ Forwarded(c)' # Forwarded(c) =>
                     /\ rxpos[c] \in 1..Len(hub)
                     /\ out'[c] = Append(out[c], hub[rxpos[c]])
                     /\ rxpos'[c] = rxpos[c] + 1]_vars

\* C32 witness: a load report, a mkdir's event and a delete's event were
\* broadcast in that order; one session has been forwarded all three in
\* that order, the other subscribed late and has been forwarded the last
\* alone.
BroadcastOrderWitness ==
    \E c \in Conns : \E d \in Conns \ {c} :
        /\ Len(hub) = 3 /\ hub[1].type = "load"
        /\ hub[2] = FsEventFor("mkdir") /\ hub[3] = FsEventFor("delete")
        /\ Forwarded(c) = hub
        /\ Forwarded(d) = SubSeq(hub, 3, 3)

\* C33: writes to one session's peer are mutually exclusive, and the mutex
\* on the writer and the Server State lock cannot deadlock.  The handler and
\* the forwarder of a session are never both in a write; whoever writes holds
\* the mutex, and nothing is written to the peer of a registered session but
\* by the holder; a handler that waits for the mutex or holds it holds no
\* Server State lock and waits for none, and the forwarder's steps never
\* touch that lock; and the holder's write can always complete and release
\* the mutex.
WriterExclusive ==
    /\ [](\A c \in Conns :
            /\ ~(pc[c] = "write" /\ fwd[c] = "write")
            /\ (pc[c] = "write") <=> (sender[c] = "handler")
            /\ (fwd[c] = "write") <=> (sender[c] = "forwarder")
            /\ pc[c] \in {"send", "write"} =>
                  (c \notin readers /\ writer # c /\ ~InQueue(c))
            /\ pc[c] = "write" => ENABLED HandlerSend(c)
            /\ fwd[c] = "write" => ENABLED ForwardSend(c))
    /\ [][\A c \in Conns :
            /\ out'[c] # out[c] =>
                  /\ sender[c] # "free" /\ sender'[c] = "free"
                  /\ Len(out'[c]) = Len(out[c]) + 1
                  /\ SubSeq(out'[c], 1, Len(out[c])) = out[c]
            /\ (fwd'[c] # fwd[c] /\ pc'[c] = pc[c] /\ fwd[c] \in {"run", "lock", "write"}) =>
                  UNCHANGED lvars]_vars

\* C33 witness: one session's handler is writing its op_success while its
\* forwarder waits for the mutex with the event to forward; the other
\* session's forwarder is writing that event while its handler waits for the
\* mutex with a pong.
WriterExclusiveWitness ==
    \E c \in Conns : \E d \in Conns \ {c} :
        /\ pc[c] = "write" /\ reply[c].type = "op_success" /\ fwd[c] = "lock"
        /\ fwd[d] = "write" /\ pc[d] = "send" /\ reply[d].type = "pong"

\* C34: a probe tick stores its snapshot and publishes it as one step of the
\* Server State lock.  From the store to the publication the probe holds the
\* lock exclusively, so no handler holds, takes or gives back the lock in
\* between and none can see the new snapshot before its message is passed to
\* the hub; the stored load changes only by a tick's store, to the snapshot
\* the tick took; the publication that follows passes exactly that stored
\* value to the hub, once, which puts it last on the hub whenever a session
\* is subscribed; and load messages are published by nothing else.
ProbeTickAtomic ==
    /\ [](monitor.pc \in {"store", "publish"} =>
            /\ writer = Monitor /\ readers = {}
            /\ \A c \in Conns : pc[c] \notin {"start_inc", "io"})
    /\ [](monitor.pc = "publish" => load = monitor.load)
    /\ [][/\ load' # load =>
                /\ monitor.pc = "store" /\ monitor'.pc = "publish"
                /\ load' = monitor.load
                /\ hub' = hub
          /\ monitor'.pc # monitor.pc =>
                <<monitor.pc, monitor'.pc>> \in
                    {<<"idle", "wait">>, <<"wait", "store">>,
                     <<"store", "publish">>, <<"publish", "idle">>}
          /\ monitor.pc \in {"store", "publish"} =>
                \A c \in Conns :
                    (WantsRead(c) \/ WantsWrite(c)) => pc'[c] = pc[c]
          /\ (monitor.pc = "publish" /\ monitor'.pc = "idle") =>
                /\ load' = load
                /\ hub' = broadcast(hub, LoadMsg(load))
                /\ writer' = NoTask
                /\ Receivers # {} =>
                      (Len(hub') = Len(hub) + 1 /\ hub'[Len(hub')] = LoadMsg(load'))
          /\ (hub' # hub /\ hub'[Len(hub')].type = "load") =>
                (monitor.pc = "publish" /\ monitor'.pc = "idle")]_vars

\* C34 witness: in its second tick the probe has stored a snapshot unlike
\* the one it published before and has not yet published it, while a
\* handler waits in the queue for the lock.
ProbeTickAtomicWitness ==
    /\ monitor.pc = "publish"
    /\ load = monitor.load
    /\ hub # <<>> /\ hub[Len(hub)].type = "load" /\ hub[Len(hub)] # LoadMsg(load)
    /\ \E c \in Conns : InQueue(c)

\* C35: in every load report published, and in the snapshot stored, io_busy
\* is true exactly when cpu_percent is above 80: at 80 the hints hold
\* throttle_transfers and generate_thumbnails_locally while io_busy is false,
\* and a report with io_busy carries throttle_transfers.
IoBusyAboveThreshold ==
    LET Holds(l) ==
            /\ l.io_busy <=> l.cpu_percent > 80
            /\ l.cpu_percent = 80 =>
                  /\ ~l.io_busy
                  /\ {"throttle_transfers", "generate_thumbnails_locally"}
                        \subseteq HintSet(l.hints)
            /\ l.io_busy => "throttle_transfers" \in HintSet(l.hints)
    IN  /\ Holds(load)
        /\ \A i \in 1..Len(hub) : hub[i].type = "load" => Holds(hub[i].detail)

\* C35 witness: a report at cpu 80 without io_busy was published, then one
\* at cpu 81 with it, which is the snapshot stored.
IoBusyAboveThresholdWitness ==
    /\ Len(hub) = 2
    /\ hub[1].detail.cpu_percent = 80 /\ ~hub[1].detail.io_busy
    /\ hub[2].detail.cpu_percent = 81 /\ hub[2].detail.io_busy
    /\ load = hub[2].detail

\* C36 (as claimed): expiry is checked before the token's kind, and the
\* failure kinds are kept apart.  A refresh_token request that presents a
\* correctly signed token whose expiry has passed is answered with the
\* expired error whatever the token's kind; the wrong-kind error is given
\* only for a token that is correctly signed and not past its expiry; and a
\* token whose signature does not verify gets neither of the two.
ExpiryBeforeKind ==
    [][\A c \in Conns : (pc[c] = "refresh" /\ pc'[c] # "refresh") =>
          LET claims == TokenClaims(cur[c].x) IN
          /\ (claims.signed /\ claims.exp < 0) =>
                reply'[c] = Msg("auth_error", "", "Token has expired")
          /\ reply'[c].detail = WrongKind => (claims.signed /\ claims.exp >= 0)
          /\ ~claims.signed =>
                (reply'[c].type = "auth_error"
                    /\ reply'[c].detail \notin {"Token has expired", WrongKind})]_vars

\* C37: registry consistency.  A handler counts as AwaitingAuth until its
\* registration has completed and as Active until its cleanup has completed
\* (the waits for the write lock belong to the state that is being left).
\* A session id is in the registry exactly while its handler is Active; it is
\* entered only by the handler's own registration, after a valid login and
\* under its username, and removed only by the handler's own cleanup; a
\* handler that has terminated stays terminated, so each id is registered at
\* most once; and when every connection has terminated the registry is empty.
RegistryConsistent ==
    /\ [](\A c \in Conns :
            (c \in DOMAIN clients) <=> (pc[c] \in ActivePcs \cup {"unreg"}))
    /\ [](DOMAIN clients \subseteq Conns)
    /\ []((\A c \in Conns : pc[c] \in {"rejected", "closed"}) => clients = NoClients)
    /\ [][\A c \in Conns :
            /\ (c \notin DOMAIN clients /\ c \in DOMAIN clients') =>
                  /\ pc[c] = "reg" /\ pc'[c] = "sub"
                  /\ ValidLogin(cur[c])
                  /\ clients'[c].username = cur[c].x
            /\ (c \in DOMAIN clients /\ c \notin DOMAIN clients') =>
                  (pc[c] = "unreg" /\ pc'[c] = "closed")
            /\ pc[c] \in {"rejected", "closed"} => pc'[c] = pc[c]
            /\ pc[c] \in ActivePcs \cup {"unreg"} =>
                  pc'[c] \in ActivePcs \cup {"unreg", "closed"}
            /\ (pc'[c] = "reg" /\ pc[c] # "reg") => pc[c] = "await_auth"]_vars

\* C37 witness: every connection has terminated, one after a session in
\* which it was answered and one without a login, and the registry is empty.
RegistryConsistentWitness ==
    \E c \in Conns :
        /\ pc[c] = "closed" /\ out[c] # <<>> /\ out[c][1].type = "pong"
        /\ \A d \in Conns \ {c} : pc[d] = "rejected" /\ out[d] = <<AuthRequired>>
        /\ clients = NoClients

\* C38 (as claimed): a stalled backend call holds nobody up.  While one
\* session's backend call has not returned, another session that asks for
\* the exclusive lock (to register, for start_transfer, for a capabilities
\* update) and the load probe that asks for it get it whenever nothing but
\* that call is in their way: it is their turn, no task holds the lock
\* exclusively and no other task holds it shared.
StalledBackendIndependence ==
    \A c \in Conns : pc[c] = "io" =>
        LET Clear(t) == QueueTurn(t) /\ writer = NoTask /\ readers \ {c} = {} IN
        /\ \A d \in Conns \ {c} :
              (pc[d] \in {"reg", "start", "caps"} /\ Clear(d)) => CanWrite(d)
        /\ (monitor.pc = "wait" /\ Clear(Monitor)) => CanWrite(Monitor)

\* C39 (as claimed): after any sequence of set_entries, cursor_down,
\* cursor_up, cursor_top, cursor_bottom, toggle_selection, undo and redo the
\* cursor is below the number of entries whenever the listing is not empty,
\* and every index in the selection is below the number of entries.
CursorInBounds ==
    /\ app.entries > 0 => app.cursor < app.entries
    /\ \A i \in 1..Len(app.selected) : app.selected[i] < app.entries

\* C40: the undo stack never holds more than MAX_UNDO_HISTORY entries; a
\* call that records an undoable action (set_entries, cursor_top,
\* toggle_selection, select_all always; cursor_down, cursor_up and
\* cursor_bottom on a non-empty listing; clear_selection of a non-empty
\* selection) leaves the redo stack empty and its own entry on top of the
\* undo stack, over the entries that were there, less the oldest one if the
\* stack was full; and redo on an empty redo stack, which is what follows
\* such a call, returns false and changes nothing.
HistoryBound ==
    /\ [](Len(app.undo_stack) <= MAX_UNDO_HISTORY)
    /\ [][LET records ==
                  \/ ret'.op \in {"set_entries", "cursor_top", "toggle_selection", "select_all"}
                  \/ ret'.op \in {"cursor_down", "cursor_up", "cursor_bottom"} /\ app.entries > 0
                  \/ ret'.op = "clear_selection" /\ app.selected # <<>>
              kept == IF Len(app.undo_stack) = MAX_UNDO_HISTORY
                      THEN Tail(app.undo_stack) ELSE app.undo_stack
          IN  /\ records =>
                    /\ app'.redo_stack = <<>>
                    /\ Len(app'.undo_stack) = Len(kept) + 1
                    /\ SubSeq(app'.undo_stack, 1, Len(kept)) = kept
                    /\ redo(app').value = "false"
              /\ (ret'.op = "redo" /\ app.redo_stack = <<>>) =>
                    (ret'.value = "false" /\ app' = app)]_vars

\* redo has just returned false after a navigation to "/a", a cursor move
\* and a toggle: three entries were recorded and the stack, at its cap,
\* holds the two newest.
HistoryBoundWitness ==
    /\ ret.op = "redo" /\ ret.value = "false"
    /\ Len(app.undo_stack) = MAX_UNDO_HISTORY
    /\ app.undo_stack[1].action = CursorMove(0)
    /\ app.undo_stack[MAX_UNDO_HISTORY].action = Selection(<<>>)
    /\ app.current_path = "/a" /\ app.entries = MaxEntries
    /\ app.cursor = 1 /\ app.selected = <<1>>
    /\ app.redo_stack = <<>>

====
